---- MODULE Spec2Model ----
(***************************************************************************)
(* A model of the remux package of tetsuo/mp4: the reconstruction of the   *)
(* dense sample table from a track's sparse tables (buildSampleTable), the *)
(* seek helpers and the fragmenter (generateFragment), and the stream      *)
(* writer (Writer.WriteTo / Writer.WriteToFrom) with its source and sink.  *)
(*                                                                         *)
(* Go slices are 0-based, TLA+ sequences are 1-based: a Go index k into a  *)
(* slice s is written s[k + 1] here, and all cursors keep their Go values. *)
(***************************************************************************)
EXTENDS Integers, Sequences, FiniteSets, TLC

(***************************************************************************)
(* Bounds of the model.                                                    *)
(***************************************************************************)
\* most samples a size table (stsz) declares
MaxSamples == 3
\* most entries of an stts table
MaxSttsEntries == 2
\* largest sample count of one stts entry
MaxCount == 2
\* most entries of an stss table
MaxStssEntries == 2
\* most entries of a chunk-offset table
MaxChunks == 2

\* the width of the words that stand for the program's 32-bit words: TLC's
\* integers end at 2^31 - 1, so uint32 arithmetic is modelled at this width
WordBits == 5

\* the number of values of a uint32
Uint32Mod == 2 ^ WordBits

\* the conversion uint32(x) of a 64-bit integer
toUint32(x) == x % Uint32Mod

Min(a, b) == IF a <= b THEN a ELSE b

Max(a, b) == IF a >= b THEN a ELSE b

\* all sequences over S of length 0..n
SeqUpTo(S, n) == UNION {[1..k -> S] : k \in 0..n}

(***************************************************************************)
(* Decoded boxes of a sample-table container (stbl), as buildSampleTable   *)
(* reads them: Child(type) is nil (present = FALSE) or carries Entries.    *)
(***************************************************************************)
NoBox == [present |-> FALSE, entries |-> <<>>]

Box(e) == [present |-> TRUE, entries |-> e]

\* stss: the box may be present with a nil Entries slice or with a non-nil one
NoStss == [present |-> FALSE, isNil |-> TRUE, entries |-> <<>>]

NilStss == [present |-> TRUE, isNil |-> TRUE, entries |-> <<>>]

Stss(e) == [present |-> TRUE, isNil |-> FALSE, entries |-> e]

SttsEntry(c, d) == [Count |-> c, Duration |-> d]

CttsEntry(c, o) == [Count |-> c, CompositionOffset |-> o]

StscEntry(f, n) == [FirstChunk |-> f, SamplesPerChunk |-> n, SampleDescriptionId |-> 1]

Sample(off, size, dur, dts, po, sync) ==
    [Offset |-> off, Size |-> size, Duration |-> dur, DTS |-> dts,
     PresentationOffset |-> po, Sync |-> sync]

(***************************************************************************)
(* buildSampleTable                                                        *)
(***************************************************************************)
\* var chunkOffsets: co64 if present, otherwise stco
chunkOffsetsOf(stbl) ==
    IF stbl.co64.present THEN stbl.co64.entries ELSE stbl.stco.entries

\* syncEntries != nil: the stss box is present and its Entries slice is not nil
hasSyncEntries(stbl) == stbl.stss.present /\ ~stbl.stss.isNil

\* the sync flag compared against the 0-based index
SampleSyncZeroBased(has, syncEntries, syncIdx, i) ==
    IF has
    THEN syncIdx < Len(syncEntries) /\ syncEntries[syncIdx + 1] = i
    ELSE TRUE

\* the sync flag of sample i (0-based) with the sync cursor at syncIdx
SampleSync(has, syncEntries, syncIdx, i) ==
    IF has
    THEN syncIdx < Len(syncEntries) /\ syncEntries[syncIdx + 1] = i + 1
    ELSE TRUE

\* the state before the first sample
cursor0 ==
    [sampleInChunk |-> 0, chunk |-> 0, offsetInChunk |-> 0,
     sampleToChunkIndex |-> 0, dts |-> 0, decodingIdx |-> 0, decodingOff |-> 0,
     cttsIdx |-> 0, cttsOff |-> 0, syncIdx |-> 0]

\* the chunk position advanced with the next stsc entry taken one chunk late
advanceChunkLate(cur, size, stscEntries) ==
    LET spc == stscEntries[cur.sampleToChunkIndex + 1].SamplesPerChunk
        sic == cur.sampleInChunk + 1
    IN  IF sic >= spc
        THEN [cur EXCEPT !.sampleInChunk = 0,
                         !.offsetInChunk = 0,
                         !.chunk = cur.chunk + 1,
                         !.sampleToChunkIndex =
                             IF cur.sampleToChunkIndex + 1 < Len(stscEntries)
                                /\ (cur.chunk + 1) + 1
                                     > stscEntries[cur.sampleToChunkIndex + 2].FirstChunk
                             THEN cur.sampleToChunkIndex + 1
                             ELSE cur.sampleToChunkIndex]
        ELSE [cur EXCEPT !.sampleInChunk = sic,
                         !.offsetInChunk = cur.offsetInChunk + size]

\* Advance chunk position
advanceChunk(cur, size, stscEntries) ==
    LET spc == stscEntries[cur.sampleToChunkIndex + 1].SamplesPerChunk
        sic == cur.sampleInChunk + 1
    IN  IF sic >= spc
        THEN [cur EXCEPT !.sampleInChunk = 0,
                         !.offsetInChunk = 0,
                         !.chunk = cur.chunk + 1,
                         !.sampleToChunkIndex =
                             IF cur.sampleToChunkIndex + 1 < Len(stscEntries)
                                /\ (cur.chunk + 1) + 1
                                     >= stscEntries[cur.sampleToChunkIndex + 2].FirstChunk
                             THEN cur.sampleToChunkIndex + 1
                             ELSE cur.sampleToChunkIndex]
        ELSE [cur EXCEPT !.sampleInChunk = sic,
                         !.offsetInChunk = cur.offsetInChunk + size]

\* Advance time
advanceTime(cur, duration, sttsEntries) ==
    IF cur.decodingOff + 1 >= sttsEntries[cur.decodingIdx + 1].Count
    THEN [cur EXCEPT !.dts = cur.dts + duration,
                     !.decodingIdx = cur.decodingIdx + 1,
                     !.decodingOff = 0]
    ELSE [cur EXCEPT !.dts = cur.dts + duration,
                     !.decodingOff = cur.decodingOff + 1]

\* Advance composition offset
advanceCtts(cur, hasCtts, cttsEntries) ==
    IF ~hasCtts
    THEN cur
    ELSE IF cur.cttsIdx < Len(cttsEntries)
            /\ cur.cttsOff + 1 >= cttsEntries[cur.cttsIdx + 1].Count
         THEN [cur EXCEPT !.cttsIdx = cur.cttsIdx + 1, !.cttsOff = 0]
         ELSE [cur EXCEPT !.cttsOff = cur.cttsOff + 1]

\* Advance sync index on every sample
advanceSyncAlways(cur, sync) == [cur EXCEPT !.syncIdx = cur.syncIdx + 1]

\* Advance sync index
advanceSync(cur, sync) ==
    IF sync THEN [cur EXCEPT !.syncIdx = cur.syncIdx + 1] ELSE cur

\* what buildSampleTable hands back: an error, a sample table, or a run-time
\* panic of an index expression out of range
BuildError == [status |-> "error", samples |-> <<>>, defaultSdi |-> 0]

BuildPanic == [status |-> "panic", samples |-> <<>>, defaultSdi |-> 0]

BuildOk(samples, sdi) == [status |-> "ok", samples |-> samples, defaultSdi |-> sdi]

NotBuilt == [status |-> "none", samples |-> <<>>, defaultSdi |-> 0]

\* an index expression of the loop body is out of range
cursorPastTable(stbl, cur) ==
    \/ cur.sampleToChunkIndex >= Len(stbl.stsc.entries)
    \/ cur.decodingIdx >= Len(stbl.stts.entries)
    \/ cur.chunk >= Len(chunkOffsetsOf(stbl))

\* the loop `for i := range numSamples`, from iteration i on
RECURSIVE buildLoop(_, _, _, _)
buildLoop(stbl, i, cur, samples) ==
    LET numSamples == Len(stbl.stsz.entries)
        stscEntries == stbl.stsc.entries
        sttsEntries == stbl.stts.entries
        cttsEntries == stbl.ctts.entries
        syncEntries == stbl.stss.entries
    IN  IF i >= numSamples
        THEN BuildOk(samples, 0)
        ELSE IF cursorPastTable(stbl, cur)
        THEN BuildPanic
        ELSE
            LET currChunkEntry == stscEntries[cur.sampleToChunkIndex + 1]
                size == stbl.stsz.entries[i + 1]
                duration == sttsEntries[cur.decodingIdx + 1].Duration
                presentationOffset ==
                    IF stbl.ctts.present /\ cur.cttsIdx < Len(cttsEntries)
                    THEN cttsEntries[cur.cttsIdx + 1].CompositionOffset
                    ELSE 0
                sync == SampleSync(hasSyncEntries(stbl), syncEntries, cur.syncIdx, i)
                s == Sample(cur.offsetInChunk + chunkOffsetsOf(stbl)[cur.chunk + 1],
                            size, duration, cur.dts, presentationOffset, sync)
                next == advanceSync(
                            advanceCtts(
                                advanceTime(
                                    advanceChunk(cur, size, stscEntries),
                                    duration, sttsEntries),
                                stbl.ctts.present, cttsEntries),
                            sync)
            IN  IF i + 1 >= numSamples
                THEN BuildOk(Append(samples, s), currChunkEntry.SampleDescriptionId)
                ELSE buildLoop(stbl, i + 1, next, Append(samples, s))

buildSampleTable(stbl) ==
    IF ~stbl.stsz.present \/ ~stbl.stts.present \/ ~stbl.stsc.present
    THEN BuildError
    ELSE IF ~stbl.co64.present /\ ~stbl.stco.present
    THEN BuildError
    ELSE buildLoop(stbl, 0, cursor0, <<>>)

(***************************************************************************)
(* Track: the seek helpers.  Times are given in half seconds, so that the  *)
(* float product timeSeconds * TimeScale has a fraction for int64() to cut. *)
(***************************************************************************)
Track(id, ts, samples) == [TrackID |-> id, TimeScale |-> ts, Samples |-> samples]

\* int64(timeSeconds * float64(t.TimeScale)): the conversion truncates toward zero
scaleTime(halfSeconds, timeScale) ==
    LET p == halfSeconds * timeScale
    IN  IF p >= 0 THEN p \div 2 ELSE -((-p) \div 2)

\* pts := t.Samples[i].DTS + int64(t.Samples[i].PresentationOffset), i 0-based
ptsOf(samples, i) == samples[i + 1].DTS + samples[i + 1].PresentationOffset

\* sort.Search(n, f) with f(h) = pts(h) >= scaledTime: the binary search on [i, j)
RECURSIVE searchPtsGE(_, _, _, _)
searchPtsGE(samples, scaledTime, i, j) ==
    IF i < j
    THEN LET h == (i + j) \div 2
         IN  IF ~(ptsOf(samples, h) >= scaledTime)
             THEN searchPtsGE(samples, scaledTime, h + 1, j)
             ELSE searchPtsGE(samples, scaledTime, i, h)
    ELSE i

\* sort.Search(n, f) with f(h) = pts(h) > scaledTime
RECURSIVE searchPtsGT(_, _, _, _)
searchPtsGT(samples, scaledTime, i, j) ==
    IF i < j
    THEN LET h == (i + j) \div 2
         IN  IF ~(ptsOf(samples, h) > scaledTime)
             THEN searchPtsGT(samples, scaledTime, h + 1, j)
             ELSE searchPtsGT(samples, scaledTime, i, h)
    ELSE i

\* for idx > 0 && !t.Samples[idx].Sync { idx-- }
RECURSIVE walkBackToSync(_, _)
walkBackToSync(samples, idx) ==
    IF idx > 0 /\ ~samples[idx + 1].Sync
    THEN walkBackToSync(samples, idx - 1)
    ELSE idx

\* for idx < len(t.Samples) && !t.Samples[idx].Sync { idx++ }
RECURSIVE walkForwardToSync(_, _)
walkForwardToSync(samples, idx) ==
    IF idx < Len(samples) /\ ~samples[idx + 1].Sync
    THEN walkForwardToSync(samples, idx + 1)
    ELSE idx

FindSampleBefore(t, timeSeconds) ==
    LET scaledTime == scaleTime(timeSeconds, t.TimeScale)
        idx == Max(searchPtsGT(t.Samples, scaledTime, 0, Len(t.Samples)) - 1, 0)
    IN  walkBackToSync(t.Samples, idx)

\* FindSampleAfter answering the first sample for a time past the last pts
FindSampleAfterPastEndFirst(t, timeSeconds) ==
    LET scaledTime == scaleTime(timeSeconds, t.TimeScale)
        idx == searchPtsGE(t.Samples, scaledTime, 0, Len(t.Samples))
    IN  IF idx >= Len(t.Samples)
        THEN 0
        ELSE LET k == walkForwardToSync(t.Samples, idx)
             IN  IF k >= Len(t.Samples) THEN Len(t.Samples) - 1 ELSE k

FindSampleAfter(t, timeSeconds) ==
    LET scaledTime == scaleTime(timeSeconds, t.TimeScale)
        idx == searchPtsGE(t.Samples, scaledTime, 0, Len(t.Samples))
    IN  IF idx >= Len(t.Samples)
        THEN Len(t.Samples) - 1
        ELSE LET k == walkForwardToSync(t.Samples, idx)
             IN  IF k >= Len(t.Samples) THEN Len(t.Samples) - 1 ELSE k

(***************************************************************************)
(* generateFragment                                                        *)
(***************************************************************************)
\* minFragmentDuration, in seconds
minFragmentDuration == 1

\* the sample flags of a sync sample (0x2000000) and of any other (0x1010000)
SyncSampleFlags == 33554432

NonSyncSampleFlags == 16842752

TrunEntry(s) ==
    [SampleDuration |-> s.Duration,
     SampleSize |-> s.Size,
     SampleFlags |-> IF s.Sync THEN SyncSampleFlags ELSE NonSyncSampleFlags,
     SampleCompositionTimeOffset |-> s.PresentationOffset]

\* the hard stop taken one sample late: a sample is kept when pts = endTimeScaled
endReachedLate(pts, endTimeScaled) == endTimeScaled > 0 /\ pts > endTimeScaled

\* Hard stop: don't include any sample at or past end time
endReached(pts, endTimeScaled) == endTimeScaled > 0 /\ pts >= endTimeScaled

\* the loop that breaks at the first sync sample, whatever time has elapsed
RECURSIVE fragmentEndAtAnySync(_, _, _, _, _, _)
fragmentEndAtAnySync(samples, firstSample, lastSample, endTimeScaled, startDts, threshold) ==
    IF lastSample < Len(samples)
    THEN LET s == samples[lastSample + 1]
             pts == s.DTS + s.PresentationOffset
         IN  IF endReached(pts, endTimeScaled)
             THEN lastSample
             ELSE IF endTimeScaled = 0 /\ lastSample > firstSample /\ s.Sync
             THEN lastSample
             ELSE fragmentEndAtAnySync(samples, firstSample, lastSample + 1,
                                       endTimeScaled, startDts, threshold)
    ELSE lastSample

\* the loop that finds the end of the fragment: the index it stops at
RECURSIVE fragmentEnd(_, _, _, _, _, _)
fragmentEnd(samples, firstSample, lastSample, endTimeScaled, startDts, threshold) ==
    IF lastSample < Len(samples)
    THEN LET s == samples[lastSample + 1]
             pts == s.DTS + s.PresentationOffset
         IN  IF endReached(pts, endTimeScaled)
             THEN lastSample
             ELSE IF endTimeScaled = 0 /\ lastSample > firstSample /\ s.Sync
                     /\ s.DTS - startDts >= threshold
             THEN lastSample
             ELSE fragmentEnd(samples, firstSample, lastSample + 1, endTimeScaled,
                              startDts, threshold)
    ELSE lastSample

byteRange(start, end) == [Start |-> start, End |-> end]

\* Build contiguous byte ranges: the samples firstSample+i .. firstSample+n-1
RECURSIVE coalesce(_, _, _, _, _)
coalesce(samples, firstSample, i, n, ranges) ==
    IF i >= n
    THEN ranges
    ELSE LET s == samples[firstSample + i + 1]
             sStart == s.Offset
             sEnd == s.Offset + s.Size
         IN  IF Len(ranges) > 0 /\ ranges[Len(ranges)].End = sStart
             THEN coalesce(samples, firstSample, i + 1, n,
                           [ranges EXCEPT ![Len(ranges)].End = sEnd])
             ELSE coalesce(samples, firstSample, i + 1, n,
                           Append(ranges, byteRange(sStart, sEnd)))

RECURSIVE sumSizes(_, _, _)
\* totalLen: the sizes of samples from..to-1 (0-based) added up
sumSizes(samples, from, to) ==
    IF from >= to THEN 0 ELSE samples[from + 1].Size + sumSizes(samples, from + 1, to)

\* the values returned with nextSample one too far
FragmentSkipping(entries, ranges, mdatSize, nextSample, version) ==
    [trunEntries |-> entries, ranges |-> ranges, mdatSize |-> mdatSize,
     nextSample |-> nextSample + 1, trunVersion |-> version]

Fragment(entries, ranges, mdatSize, nextSample, version) ==
    [trunEntries |-> entries, ranges |-> ranges, mdatSize |-> mdatSize,
     nextSample |-> nextSample, trunVersion |-> version]

generateFragment(t, firstSample, endTimeScaled) ==
    LET samples == t.Samples
    IN  IF firstSample >= Len(samples)
        THEN Fragment(<<>>, <<>>, 0, firstSample, 0)
        ELSE LET startDts == samples[firstSample + 1].DTS
                 threshold == t.TimeScale * minFragmentDuration
                 lastSample == fragmentEnd(samples, firstSample, firstSample,
                                           endTimeScaled, startDts, threshold)
                 n == lastSample - firstSample
             IN  IF n = 0
                 THEN Fragment(<<>>, <<>>, 0, lastSample, 0)
                 ELSE Fragment(
                        [i \in 1..n |-> TrunEntry(samples[firstSample + i])],
                        coalesce(samples, firstSample, 0, n, <<>>),
                        sumSizes(samples, firstSample, lastSample),
                        lastSample,
                        IF \E i \in 1..n : samples[firstSample + i].PresentationOffset < 0
                        THEN 1 ELSE 0)

(***************************************************************************)
(* Writer.resolveRange                                                     *)
(***************************************************************************)
Resolved(panic, firstSample, dtsOffset, endTimeScaled) ==
    [panic |-> panic, firstSample |-> firstSample, dtsOffset |-> dtsOffset,
     endTimeScaled |-> endTimeScaled]

\* track.Samples[firstSample] panics when firstSample is no index of Samples
resolveRange(t, startTime, endTime) ==
    LET n == Len(t.Samples)
        after == FindSampleAfter(t, startTime)
        endScaled == scaleTime(endTime, t.TimeScale)
    IN  IF after < 0
        THEN Resolved(TRUE, after, 0, 0)
        ELSE LET firstSample ==
                     IF endTime > 0 /\ after < n /\ ptsOf(t.Samples, after) >= endScaled
                     THEN FindSampleBefore(t, startTime)
                     ELSE after
             IN  IF firstSample < 0 \/ firstSample >= n
                 THEN Resolved(TRUE, firstSample, 0, 0)
                 ELSE Resolved(FALSE, firstSample, t.Samples[firstSample + 1].DTS,
                               IF endTime > 0 THEN endScaled ELSE 0)

(***************************************************************************)
(* newRemuxer: the tracks made of the traks of a moov.                     *)
(***************************************************************************)
\* the most traks in a moov
MaxTraks == 2

\* a decoded trak: which of its boxes are there, the handler and sample entry
\* type, and the sample tables
Trak(id, tkhd, mdia, hdlr, minf, hasStbl, mdhd, stsd, kind, tables) ==
    [id |-> id, tkhd |-> tkhd, mdia |-> mdia, hdlr |-> hdlr, minf |-> minf,
     hasStbl |-> hasStbl, mdhd |-> mdhd, stsd |-> stsd, kind |-> kind,
     tables |-> tables]

\* the boxes that newRemuxer looks for in a trak before it looks at the codec
headerBoxesPresent(trak) ==
    /\ trak.tkhd
    /\ trak.mdia
    /\ trak.hdlr
    /\ trak.minf
    /\ trak.hasStbl
    /\ trak.mdhd
    /\ trak.stsd

\* handler "vide" with an avc1 entry, handler "soun" with an mp4a entry
SupportedKinds == {"vide/avc1", "soun/mp4a"}

RemuxError == [status |-> "error", tracks |-> <<>>]

RemuxPanic == [status |-> "panic", tracks |-> <<>>]

RemuxOk(tracks) == [status |-> "ok", tracks |-> tracks]

RECURSIVE trakLoop(_, _, _, _, _)
\* for _, trak := range traks
trakLoop(traks, i, tracks, hasVideo, hasAudio) ==
    IF i > Len(traks)
    THEN IF Len(tracks) = 0 THEN RemuxError ELSE RemuxOk(tracks)
    ELSE LET trak == traks[i]
         IN  IF ~headerBoxesPresent(trak)
             THEN trakLoop(traks, i + 1, tracks, hasVideo, hasAudio)
             ELSE IF trak.kind = "vide/avc1" /\ hasVideo
             THEN trakLoop(traks, i + 1, tracks, hasVideo, hasAudio)
             ELSE IF trak.kind = "soun/mp4a" /\ hasAudio
             THEN trakLoop(traks, i + 1, tracks, hasVideo, hasAudio)
             ELSE IF trak.kind \notin SupportedKinds
             THEN trakLoop(traks, i + 1, tracks, hasVideo, hasAudio)
             ELSE LET bst == buildSampleTable(trak.tables)
                  IN  IF bst.status = "panic"
                      THEN RemuxPanic
                      ELSE IF bst.status = "error"
                      THEN RemuxError
                      ELSE trakLoop(traks, i + 1,
                                    Append(tracks, Track(trak.id, 1, bst.samples)),
                                    hasVideo \/ trak.kind = "vide/avc1",
                                    hasAudio \/ trak.kind = "soun/mp4a")

\* newRemuxer(moov)
newRemuxer(m) ==
    IF ~m.mvhd
    THEN RemuxError
    ELSE IF Len(m.traks) = 0
    THEN RemuxError
    ELSE trakLoop(m.traks, 1, <<>>, FALSE, FALSE)

(***************************************************************************)
(* Bytes, big-endian integers and box headers.                             *)
(***************************************************************************)
\* the bits of a byte of the buffers (8 in the program)
ByteBits == 2

ByteMod == 2 ^ ByteBits

RECURSIVE beUint(_)
\* be.Uint32 / be.Uint64: the big-endian value of a run of bytes
beUint(bs) ==
    IF bs = <<>>
    THEN 0
    ELSE beUint(SubSeq(bs, 1, Len(bs) - 1)) * ByteMod + bs[Len(bs)]

RECURSIVE bePut(_, _)
\* be.PutUint32 / be.PutUint64: the n low bytes of v, big-endian
bePut(v, n) ==
    IF n = 0
    THEN <<>>
    ELSE Append(bePut(v \div ByteMod, n - 1), v % ByteMod)

\* the values of a uint32 and of a uint64
Uint32Range == ByteMod ^ 4

Uint64Range == ByteMod ^ 8

\* the values of a uint16
Uint16Range == ByteMod ^ 2

\* math.MaxUint32
uint32Max == Uint32Range - 1

\* int32(x) and int16(x): the low bits of x, two's complement
toInt32(x) ==
    LET u == x % Uint32Range
    IN  IF u >= Uint32Range \div 2 THEN u - Uint32Range ELSE u

toInt16(x) ==
    LET u == x % Uint16Range
    IN  IF u >= Uint16Range \div 2 THEN u - Uint16Range ELSE u

\* int64(x) and int(x) of a uint64 x (64-bit int): two's complement
toInt64(x) == IF x >= Uint64Range \div 2 THEN x - Uint64Range ELSE x

\* box types, as their four bytes
TypeFree == <<0, 0, 0, 1>>

TypeMoov == <<0, 0, 0, 2>>

TypeMvhd == <<0, 0, 0, 3>>

TypeTkhd == <<0, 0, 1, 0>>

TypeMdhd == <<0, 0, 1, 1>>

TypeMehd == <<0, 0, 1, 2>>

TypeTfdt == <<0, 0, 1, 3>>

TypeElst == <<0, 0, 2, 0>>

\* IsFullBox(t), for the types above
IsFullBox(t) ==
    t \in {TypeMvhd, TypeTkhd, TypeMdhd, TypeMehd, TypeTfdt, TypeElst}

(***************************************************************************)
(* An io.ReadSeeker over a byte buffer.                                    *)
(***************************************************************************)
\* io.ReadFull(rs, p) with len(p) = n from position pos; fail: a Read of it
\* returns the error e
readFull(b, pos, n, fail, e) ==
    LET avail == IF pos >= Len(b) THEN 0 ELSE Len(b) - pos
    IN  IF n = 0
        THEN [err |-> "nil", pos |-> pos, data |-> <<>>]
        ELSE IF fail
        THEN [err |-> e, pos |-> pos, data |-> <<>>]
        ELSE IF avail >= n
        THEN [err |-> "nil", pos |-> pos + n, data |-> SubSeq(b, pos + 1, pos + n)]
        ELSE IF avail = 0
        THEN [err |-> "EOF", pos |-> pos, data |-> <<>>]
        ELSE [err |-> "ErrUnexpectedEOF", pos |-> Len(b),
              data |-> SubSeq(b, pos + 1, Len(b))]

\* rs.Seek(off, whence) from position pos: the new position, an error for a
\* position below 0 and when the source fails
seek(b, pos, off, whence, fail, e) ==
    LET to == CASE whence = "SeekStart" -> off
                [] whence = "SeekCurrent" -> pos + off
                [] OTHER -> Len(b) + off
    IN  IF fail
        THEN [err |-> e, pos |-> pos]
        ELSE IF to < 0
        THEN [err |-> "EINVAL", pos |-> pos]
        ELSE [err |-> "nil", pos |-> to]

(***************************************************************************)
(* Scanner.                                                                *)
(***************************************************************************)
ScanEntry(t, size, offset, headerSize) ==
    [Type |-> t, Size |-> size, Offset |-> offset, HeaderSize |-> headerSize]

\* NewScanner(rs), rs at the start of the stream
NewScanner ==
    [rsPos |-> 0, entry |-> ScanEntry(<<0, 0, 0, 0>>, 0, 0, 0), err |-> "nil",
     pos |-> 0, ok |-> FALSE]

\* Next returning false, with s.err set when there is an error to keep
scanStop(s, rsPos, err) ==
    [s EXCEPT !.rsPos = rsPos, !.ok = FALSE,
              !.err = IF err = "nil" THEN @ ELSE err]

\* Next from the test of size == 0 on; f is the I/O call that fails (0: none):
\* 3, 4, 5 the three Seek calls that resolve a size of 0, 6 the Seek past the data
scanSized(s, b, f, e, rsPos, boxStart, size0, t, headerSize) ==
    LET cur == seek(b, rsPos, 0, "SeekCurrent", f = 3, e)
        end == seek(b, cur.pos, 0, "SeekEnd", f = 4, e)
        back == seek(b, end.pos, cur.pos, "SeekStart", f = 5, e)
        size == IF size0 = 0 THEN end.pos - boxStart ELSE size0
        at == IF size0 = 0 THEN back.pos ELSE rsPos
        entry == ScanEntry(t, size, boxStart, headerSize)
        dataSize == size - headerSize
        skip == seek(b, at, dataSize, "SeekCurrent", f = 6, e)
    IN  IF size0 = 0 /\ cur.err # "nil"
        THEN scanStop(s, cur.pos, cur.err)
        ELSE IF size0 = 0 /\ end.err # "nil"
        THEN scanStop(s, end.pos, end.err)
        ELSE IF size0 = 0 /\ back.err # "nil"
        THEN scanStop(s, back.pos, back.err)
        ELSE IF dataSize > 0 /\ skip.err # "nil"
        THEN [scanStop(s, skip.pos, skip.err) EXCEPT !.entry = entry]
        ELSE [s EXCEPT !.entry = entry,
                       !.rsPos = IF dataSize > 0 THEN skip.pos ELSE at,
                       !.pos = boxStart + size,
                       !.ok = TRUE]

\* if err != nil { s.err = err; return false } after the read of the extended size
onShortExtendedSize(s, rsPos, err) == scanStop(s, rsPos, err)

\* (*Scanner).Next; f is the I/O call that fails with e (0: none): 1 the read of
\* the header, 2 the read of the extended size, 3..6 as in scanSized
scanNext(s, b, f, e) ==
    LET r1 == readFull(b, s.rsPos, 8, f = 1, e)
    IN  IF r1.err # "nil"
        THEN scanStop(s, r1.pos,
                      IF r1.err \in {"EOF", "ErrUnexpectedEOF"} THEN "nil" ELSE r1.err)
        ELSE LET size32 == beUint(SubSeq(r1.data, 1, 4))
                 t == SubSeq(r1.data, 5, 8)
             IN  IF size32 = 1
                 THEN LET r2 == readFull(b, r1.pos, 8, f = 2, e)
                      IN  IF r2.err # "nil"
                          THEN onShortExtendedSize(s, r2.pos, r2.err)
                          ELSE scanSized(s, b, f, e, r2.pos, s.pos,
                                         toInt64(beUint(r2.data)), t, 16)
                 ELSE scanSized(s, b, f, e, r1.pos, s.pos, size32, t, 8)

\* the I/O calls that (*Scanner).Next makes
ScanCalls == 1..6

\* ReadBody / ReadBox: Seek to `from`, io.ReadFull of n bytes, Seek back to
\* s.pos; f is the call that fails (0: none)
fetch(s, b, from, n, f, e) ==
    LET saved == s.pos
        to == seek(b, s.rsPos, from, "SeekStart", f = 1, e)
        rd == readFull(b, to.pos, n, f = 2, e)
        back == seek(b, rd.pos, saved, "SeekStart", f = 3, e)
    IN  IF to.err # "nil"
        THEN [err |-> to.err, rsPos |-> to.pos, data |-> <<>>]
        ELSE IF rd.err # "nil"
        THEN [err |-> rd.err, rsPos |-> rd.pos, data |-> <<>>]
        ELSE [err |-> back.err, rsPos |-> back.pos, data |-> rd.data]

\* (*Scanner).ReadBody(buf), len(buf) = n
ReadBody(s, b, n, f, e) ==
    fetch(s, b, s.entry.Offset + s.entry.HeaderSize, n, f, e)

\* (*Scanner).ReadBox(buf), len(buf) = n
ReadBox(s, b, n, f, e) == fetch(s, b, s.entry.Offset, n, f, e)

(***************************************************************************)
(* Reader.                                                                 *)
(***************************************************************************)
\* const maxDepth: the size of the nesting stack (16 in the program)
maxDepth == 2

readerFrame(end, boxEnd) == [end |-> end, boxEnd |-> boxEnd]

\* NewReader(buf)
NewReader(b) ==
    [pos |-> 0, end |-> Len(b), boxType |-> <<0, 0, 0, 0>>, boxSize |-> 0,
     boxStart |-> 0, boxEnd |-> 0, dataStart |-> 0, version |-> 0, flags |-> 0,
     stack |-> <<>>, depth |-> 0, ok |-> FALSE, panic |-> FALSE]

\* r.buf[from:] read for n bytes is inside the buffer
inBuffer(b, from, n) == from >= 0 /\ from + n <= Len(b)

\* (*Reader).Next
readerNext(r, b) ==
    LET pos == IF r.boxEnd > r.pos THEN r.boxEnd ELSE r.pos
        r0 == [r EXCEPT !.pos = pos, !.ok = FALSE]
    IN  IF r.end - pos < 8
        THEN r0
        ELSE IF ~inBuffer(b, pos, 8)
        THEN [r0 EXCEPT !.panic = TRUE]
        ELSE
        LET size32 == beUint(SubSeq(b, pos + 1, pos + 4))
            t == SubSeq(b, pos + 5, pos + 8)
            r1 == [r0 EXCEPT !.boxStart = pos, !.boxType = t]
        IN  IF size32 = 1 /\ r.end - pos < 16
            THEN r1
            ELSE IF size32 = 1 /\ ~inBuffer(b, pos + 8, 8)
            THEN [r1 EXCEPT !.panic = TRUE]
            ELSE
            LET size1 == IF size32 = 1
                         THEN beUint(SubSeq(b, pos + 9, pos + 16))
                         ELSE size32
                ptr == IF size32 = 1 THEN pos + 16 ELSE pos + 8
                size == IF size1 = 0 THEN r.end - pos ELSE size1
                boxEnd == pos + toInt64(size)
                r2 == [r1 EXCEPT !.boxSize = size, !.boxEnd = boxEnd]
            IN  IF boxEnd > r.end
                THEN r2
                ELSE IF IsFullBox(t)
                THEN IF boxEnd - ptr < 4
                     THEN r2
                     ELSE [r2 EXCEPT !.version = b[ptr + 1],
                                     !.flags = beUint(SubSeq(b, ptr + 2, ptr + 4)),
                                     !.dataStart = ptr + 4,
                                     !.ok = TRUE]
                ELSE [r2 EXCEPT !.version = 0, !.flags = 0, !.dataStart = ptr,
                                !.ok = TRUE]

\* (*Reader).Enter
readerEnter(r) ==
    IF r.depth >= maxDepth
    THEN [r EXCEPT !.panic = TRUE]
    ELSE [r EXCEPT !.stack = Append(SubSeq(r.stack, 1, r.depth),
                                    readerFrame(r.end, r.boxEnd)),
                   !.depth = r.depth + 1,
                   !.end = r.boxEnd,
                   !.pos = r.dataStart,
                   !.boxEnd = r.dataStart]

\* (*Reader).Exit
readerExit(r) ==
    IF r.depth = 0
    THEN [r EXCEPT !.panic = TRUE]
    ELSE LET f == r.stack[r.depth]
         IN  [r EXCEPT !.depth = r.depth - 1,
                       !.stack = SubSeq(r.stack, 1, r.depth - 1),
                       !.end = f.end,
                       !.pos = f.boxEnd,
                       !.boxEnd = f.boxEnd]

\* (*Reader).Skip(n)
readerSkip(r, n) == [r EXCEPT !.pos = r.pos + n, !.boxEnd = r.pos + n]

\* r.buf[r.dataStart:r.boxEnd] and r.buf[r.boxStart:r.boxEnd] are slices
slicesValid(r, b) ==
    /\ 0 <= r.boxStart
    /\ r.boxStart <= r.dataStart
    /\ r.dataStart <= r.boxEnd
    /\ r.boxEnd <= Len(b)

(***************************************************************************)
(* Writer: the boxes with a version-0 and a version-1 layout, and the       *)
(* functions that read them.                                               *)
(***************************************************************************)
\* mp4.NewWriter(buf), buf large enough for what is written: the bytes
\* written and the offsets of the boxes begun
mp4NewWriter == [bytes |-> <<>>, stack |-> <<>>]

putBytes(w, p) == [w EXCEPT !.bytes = @ \o p]

putUint16(w, v) == putBytes(w, bePut(v, 2))

putUint32(w, v) == putBytes(w, bePut(v, 4))

putUint64(w, v) == putBytes(w, bePut(v, 8))

putZeros(w, n) == putBytes(w, [i \in 1..n |-> 0])

\* (*Writer).StartBox
StartBox(w, t) ==
    putBytes(putUint32([w EXCEPT !.stack = Append(@, Len(w.bytes))], 0), t)

\* (*Writer).StartFullBox: version in the first byte, flags in the other three
StartFullBox(w, t, version, flags) ==
    putBytes(StartBox(w, t), <<version % ByteMod>> \o bePut(flags, 3))

\* (*Writer).EndBox: the size of the box written over its first four bytes
EndBox(w) ==
    LET offset == w.stack[Len(w.stack)]
        size == bePut(Len(w.bytes) - offset, 4)
    IN  [w EXCEPT !.stack = SubSeq(@, 1, Len(@) - 1),
                  !.bytes = [i \in 1..Len(@) |->
                                IF i > offset /\ i <= offset + 4
                                THEN size[i - offset]
                                ELSE @[i]]]

\* the identity matrix of mvhd and tkhd: 1.0, 0, 0, 0, 1.0, 0, 0, 0, and
\* 0x40000000
putMatrix(w) ==
    LET one == <<0, 1, 0, 0>>
        w1 == putZeros(putBytes(w, one), 12)
        w2 == putZeros(putBytes(w1, one), 12)
    IN  putBytes(w2, <<1, 0, 0, 0>>)

\* (*Writer).WriteMvhd
WriteMvhd(w, timescale, duration, nextTrackId) ==
    LET h == IF duration > uint32Max
             THEN putUint64(putUint32(putUint64(putUint64(
                      StartFullBox(w, TypeMvhd, 1, 0), 0), 0), timescale),
                      duration)
             ELSE putUint32(putUint32(putUint32(putUint32(
                      StartFullBox(w, TypeMvhd, 0, 0), 0), 0), timescale),
                      duration % Uint32Range)
        rate == putZeros(putBytes(putBytes(h, <<0, 1, 0, 0>>), <<1, 0>>), 10)
    IN  EndBox(putUint32(putZeros(putMatrix(rate), 24), nextTrackId))

\* (*Writer).WriteTkhd
WriteTkhd(w, flags, trackId, duration, width, height) ==
    LET h == IF duration > uint32Max
             THEN putUint64(putUint32(putUint32(putUint64(putUint64(
                      StartFullBox(w, TypeTkhd, 1, flags), 0), 0), trackId), 0),
                      duration)
             ELSE putUint32(putUint32(putUint32(putUint32(putUint32(
                      StartFullBox(w, TypeTkhd, 0, flags), 0), 0), trackId), 0),
                      duration % Uint32Range)
        layer == putZeros(putZeros(h, 8), 8)
    IN  EndBox(putUint32(putUint32(putMatrix(layer), width), height))

\* (*Writer).WriteMdhd
WriteMdhd(w, timescale, duration, language) ==
    LET h == IF duration > uint32Max
             THEN putUint64(putUint32(putUint64(putUint64(
                      StartFullBox(w, TypeMdhd, 1, 0), 0), 0), timescale),
                      duration)
             ELSE putUint32(putUint32(putUint32(putUint32(
                      StartFullBox(w, TypeMdhd, 0, 0), 0), 0), timescale),
                      duration % Uint32Range)
    IN  EndBox(putUint16(putUint16(h, language), 0))

\* (*Writer).WriteMehd
WriteMehd(w, fragmentDuration) ==
    EndBox(IF fragmentDuration > uint32Max
           THEN putUint64(StartFullBox(w, TypeMehd, 1, 0), fragmentDuration)
           ELSE putUint32(StartFullBox(w, TypeMehd, 0, 0),
                          fragmentDuration % Uint32Range))

\* (*Writer).WriteTfdt
WriteTfdt(w, decodeTime) ==
    EndBox(IF decodeTime > uint32Max
           THEN putUint64(StartFullBox(w, TypeTfdt, 1, 0), decodeTime)
           ELSE putUint32(StartFullBox(w, TypeTfdt, 0, 0),
                          decodeTime % Uint32Range))

ElstEntry(segmentDuration, mediaTime, mediaRateInt, mediaRateFrac) ==
    [SegmentDuration |-> segmentDuration, MediaTime |-> mediaTime,
     MediaRateInt |-> mediaRateInt, MediaRateFrac |-> mediaRateFrac]

\* WriteElst: whether an entry asks for version 1
elstNeedsV1(e) ==
    e.SegmentDuration > uint32Max \/ e.MediaTime > toInt32(e.MediaTime)

RECURSIVE putElstEntries(_, _, _, _)
putElstEntries(w, entries, i, v1) ==
    IF i > Len(entries)
    THEN w
    ELSE LET e == entries[i]
             t == IF v1
                  THEN putUint64(putUint64(w, e.SegmentDuration),
                                 e.MediaTime % Uint64Range)
                  ELSE putUint32(putUint32(w, e.SegmentDuration % Uint32Range),
                                 e.MediaTime % Uint32Range)
             r == putUint16(putUint16(t, e.MediaRateInt % Uint16Range),
                            e.MediaRateFrac % Uint16Range)
         IN  putElstEntries(r, entries, i + 1, v1)

\* (*Writer).WriteElst
WriteElst(w, entries) ==
    LET v1 == \E i \in 1..Len(entries) : elstNeedsV1(entries[i])
        h == StartFullBox(w, TypeElst, IF v1 THEN 1 ELSE 0, 0)
    IN  EndBox(putElstEntries(putUint32(h, Len(entries)), entries, 1, v1))

\* (*Reader).Data
Data(r, b) == SubSeq(b, r.dataStart + 1, r.boxEnd)

\* data[lo:hi] as a big-endian integer
beAt(data, lo, hi) == beUint(SubSeq(data, lo + 1, hi))

\* (*Reader).ReadMvhd; a slice of data past its end panics
ReadMvhd(r, b) ==
    LET data == Data(r, b)
    IN  IF r.version = 1
        THEN IF Len(data) < 108
             THEN <<"panic">>
             ELSE <<"ok", beAt(data, 16, 20), beAt(data, 20, 28), beAt(data, 104, 108)>>
        ELSE IF Len(data) < 96
             THEN <<"panic">>
             ELSE <<"ok", beAt(data, 8, 12), beAt(data, 12, 16), beAt(data, 92, 96)>>

\* (*Reader).ReadTkhd
ReadTkhd(r, b) ==
    LET data == Data(r, b)
    IN  IF r.version = 1
        THEN IF Len(data) < 92
             THEN <<"panic">>
             ELSE <<"ok", beAt(data, 16, 20), beAt(data, 24, 32), beAt(data, 84, 88),
                    beAt(data, 88, 92)>>
        ELSE IF Len(data) < 80
             THEN <<"panic">>
             ELSE <<"ok", beAt(data, 8, 12), beAt(data, 16, 20), beAt(data, 72, 76),
                    beAt(data, 76, 80)>>

\* (*Reader).ReadMdhd
ReadMdhd(r, b) ==
    LET data == Data(r, b)
    IN  IF r.version = 1
        THEN IF Len(data) < 30
             THEN <<"panic">>
             ELSE <<"ok", beAt(data, 16, 20), beAt(data, 20, 28), beAt(data, 28, 30)>>
        ELSE IF Len(data) < 18
             THEN <<"panic">>
             ELSE <<"ok", beAt(data, 8, 12), beAt(data, 12, 16), beAt(data, 16, 18)>>

\* (*Reader).ReadMehd
ReadMehd(r, b) ==
    LET data == Data(r, b)
    IN  IF r.version = 1
        THEN IF Len(data) < 8 THEN <<"panic">> ELSE <<"ok", beAt(data, 0, 8)>>
        ELSE IF Len(data) < 4 THEN <<"panic">> ELSE <<"ok", beAt(data, 0, 4)>>

\* (*Reader).ReadTfdt
ReadTfdt(r, b) ==
    LET data == Data(r, b)
    IN  IF r.version = 1
        THEN IF Len(data) < 8 THEN <<"panic">> ELSE <<"ok", beAt(data, 0, 8)>>
        ELSE IF Len(data) < 4 THEN <<"panic">> ELSE <<"ok", beAt(data, 0, 4)>>

\* NewElstIter(data, version)
NewElstIter(data, version) ==
    IF Len(data) < 4
    THEN [buf |-> <<>>, count |-> 0, index |-> 0, version |-> 0]
    ELSE [buf |-> data, count |-> beAt(data, 0, 4), index |-> 0,
          version |-> version]

\* (*ElstIter).Next: the iterator after the call, the entry and whether there
\* was one
elstNext(it) ==
    LET stride == IF it.version = 1 THEN 20 ELSE 12
        offset == 4 + it.index * stride
        none == [it |-> it, e |-> ElstEntry(0, 0, 0, 0), ok |-> FALSE,
                 panic |-> FALSE]
    IN  IF it.index >= it.count
        THEN none
        ELSE IF offset + stride > Len(it.buf)
        THEN none
        ELSE IF ~inBuffer(it.buf, offset, stride)
        THEN [none EXCEPT !.panic = TRUE]
        ELSE [it |-> [it EXCEPT !.index = @ + 1],
              panic |-> FALSE,
              e |-> IF it.version = 1
                    THEN ElstEntry(beAt(it.buf, offset, offset + 8),
                                   toInt64(beAt(it.buf, offset + 8, offset + 16)),
                                   toInt16(beAt(it.buf, offset + 16, offset + 18)),
                                   toInt16(beAt(it.buf, offset + 18, offset + 20)))
                    ELSE ElstEntry(beAt(it.buf, offset, offset + 4),
                                   toInt32(beAt(it.buf, offset + 4, offset + 8)),
                                   toInt16(beAt(it.buf, offset + 8, offset + 10)),
                                   toInt16(beAt(it.buf, offset + 10, offset + 12))),
              ok |-> TRUE]

RECURSIVE elstAll(_)
\* the entries that Next yields until it returns false
elstAll(it) ==
    LET n == elstNext(it)
    IN  IF n.ok THEN <<n.e>> \o elstAll(n.it) ELSE <<>>

(***************************************************************************)
(* The cursors over packed tables.                                         *)
(***************************************************************************)
\* what Next returns when it is done, and when it reads past the end of buf
cursorDone(it) == [it |-> it, e |-> <<>>, ok |-> FALSE, panic |-> FALSE]

cursorPanic(it) == [it |-> it, e |-> <<>>, ok |-> FALSE, panic |-> TRUE]

cursorYield(it, e) ==
    [it |-> [it EXCEPT !.index = @ + 1], e |-> e, ok |-> TRUE, panic |-> FALSE]

\* NewStszIter(data)
NewStszIter(data) ==
    IF Len(data) < 8
    THEN [buf |-> <<>>, sampleSize |-> 0, count |-> 0, index |-> 0]
    ELSE [buf |-> data, sampleSize |-> beAt(data, 0, 4),
          count |-> beAt(data, 4, 8), index |-> 0]

\* (*StszIter).Next
stszNext(it) ==
    LET offset == 8 + it.index * 4
    IN  IF it.index >= it.count
        THEN cursorDone(it)
        ELSE IF it.sampleSize # 0
        THEN cursorYield(it, <<it.sampleSize>>)
        ELSE IF offset + 4 > Len(it.buf)
        THEN cursorDone(it)
        ELSE IF ~inBuffer(it.buf, offset, 4)
        THEN cursorPanic(it)
        ELSE cursorYield(it, <<beAt(it.buf, offset, offset + 4)>>)

\* NewCo64Iter, NewSttsIter, NewStscIter, NewUint32Iter (data)
NewCountIter(data) ==
    IF Len(data) < 4
    THEN [buf |-> <<>>, count |-> 0, index |-> 0]
    ELSE [buf |-> data, count |-> beAt(data, 0, 4), index |-> 0]

\* (*Co64Iter).Next
co64Next(it) ==
    LET offset == 4 + it.index * 8
    IN  IF it.index >= it.count
        THEN cursorDone(it)
        ELSE IF offset + 8 > Len(it.buf)
        THEN cursorDone(it)
        ELSE IF ~inBuffer(it.buf, offset, 8)
        THEN cursorPanic(it)
        ELSE cursorYield(it, <<beAt(it.buf, offset, offset + 8)>>)

\* (*SttsIter).Next
sttsNext(it) ==
    LET offset == 4 + it.index * 8
    IN  IF it.index >= it.count
        THEN cursorDone(it)
        ELSE IF offset + 8 > Len(it.buf)
        THEN cursorDone(it)
        ELSE IF ~inBuffer(it.buf, offset, 8)
        THEN cursorPanic(it)
        ELSE cursorYield(it, <<beAt(it.buf, offset, offset + 4),
                               beAt(it.buf, offset + 4, offset + 8)>>)

\* NewCttsIter(data, version)
NewCttsIter(data, version) ==
    IF Len(data) < 4
    THEN [buf |-> <<>>, count |-> 0, index |-> 0, version |-> 0]
    ELSE [buf |-> data, count |-> beAt(data, 0, 4), index |-> 0,
          version |-> version]

\* (*CttsIter).Next: the offset is read as an int32 in both versions
cttsNext(it) ==
    LET offset == 4 + it.index * 8
    IN  IF it.index >= it.count
        THEN cursorDone(it)
        ELSE IF offset + 8 > Len(it.buf)
        THEN cursorDone(it)
        ELSE IF ~inBuffer(it.buf, offset, 8)
        THEN cursorPanic(it)
        ELSE cursorYield(it, <<beAt(it.buf, offset, offset + 4),
                               toInt32(beAt(it.buf, offset + 4, offset + 8))>>)

\* (*StscIter).Next
stscNext(it) ==
    LET offset == 4 + it.index * 12
    IN  IF it.index >= it.count
        THEN cursorDone(it)
        ELSE IF offset + 12 > Len(it.buf)
        THEN cursorDone(it)
        ELSE IF ~inBuffer(it.buf, offset, 12)
        THEN cursorPanic(it)
        ELSE cursorYield(it, <<beAt(it.buf, offset, offset + 4),
                               beAt(it.buf, offset + 4, offset + 8),
                               beAt(it.buf, offset + 8, offset + 12)>>)

\* (*Uint32Iter).Next reading the entry whether or not buf holds it
uint32NextUnchecked(it) ==
    LET offset == 4 + it.index * 4
    IN  IF it.index >= it.count
        THEN cursorDone(it)
        ELSE IF ~inBuffer(it.buf, offset, 4)
        THEN cursorPanic(it)
        ELSE cursorYield(it, <<beAt(it.buf, offset, offset + 4)>>)

\* (*Uint32Iter).Next
uint32Next(it) ==
    LET offset == 4 + it.index * 4
    IN  IF it.index >= it.count
        THEN cursorDone(it)
        ELSE IF offset + 4 > Len(it.buf)
        THEN cursorDone(it)
        ELSE IF ~inBuffer(it.buf, offset, 4)
        THEN cursorPanic(it)
        ELSE cursorYield(it, <<beAt(it.buf, offset, offset + 4)>>)

\* the flags of a trun, each as its name: flags & TrunXPresent != 0 is
\* "X" \in flags
TrunFlags ==
    {"DataOffset", "FirstSampleFlags", "SampleDuration", "SampleSize",
     "SampleFlags", "SampleCompositionTimeOffset"}

TrunIterZero ==
    [buf |-> <<>>, flags |-> {}, count |-> 0, index |-> 0, dataOffset |-> 0,
     firstSampleFlags |-> 0, stride |-> 0, entriesStart |-> 0]

\* NewTrunIter(data, flags)
NewTrunIter(data, flags) ==
    LET ptr1 == IF "DataOffset" \in flags THEN 8 ELSE 4
        ptr2 == IF "FirstSampleFlags" \in flags THEN ptr1 + 4 ELSE ptr1
        perSample == flags \cap {"SampleDuration", "SampleSize", "SampleFlags",
                                 "SampleCompositionTimeOffset"}
    IN  IF Len(data) < 4
        THEN TrunIterZero
        ELSE IF "DataOffset" \in flags /\ 4 + 4 > Len(data)
        THEN TrunIterZero
        ELSE IF "FirstSampleFlags" \in flags /\ ptr1 + 4 > Len(data)
        THEN TrunIterZero
        ELSE [buf |-> data, flags |-> flags, count |-> beAt(data, 0, 4),
              index |-> 0,
              dataOffset |-> IF "DataOffset" \in flags
                             THEN toInt32(beAt(data, 4, 8))
                             ELSE 0,
              firstSampleFlags |-> IF "FirstSampleFlags" \in flags
                                   THEN beAt(data, ptr1, ptr1 + 4)
                                   ELSE 0,
              stride |-> 4 * Cardinality(perSample),
              entriesStart |-> ptr2]

\* (*TrunIter).Next
trunNext(it) ==
    LET offset == it.entriesStart + it.index * it.stride
        p1 == IF "SampleDuration" \in it.flags THEN offset + 4 ELSE offset
        p2 == IF "SampleSize" \in it.flags THEN p1 + 4 ELSE p1
        p3 == IF "SampleFlags" \in it.flags THEN p2 + 4 ELSE p2
    IN  IF it.index >= it.count
        THEN cursorDone(it)
        ELSE IF offset + it.stride > Len(it.buf)
        THEN cursorDone(it)
        ELSE IF ~inBuffer(it.buf, offset, it.stride)
        THEN cursorPanic(it)
        ELSE cursorYield(it,
                 <<IF "SampleDuration" \in it.flags
                   THEN beAt(it.buf, offset, offset + 4) ELSE 0,
                   IF "SampleSize" \in it.flags
                   THEN beAt(it.buf, p1, p1 + 4) ELSE 0,
                   IF "SampleFlags" \in it.flags
                   THEN beAt(it.buf, p2, p2 + 4) ELSE 0,
                   IF "SampleCompositionTimeOffset" \in it.flags
                   THEN toInt32(beAt(it.buf, p3, p3 + 4)) ELSE 0>>)

(***************************************************************************)
(* State.                                                                  *)
(***************************************************************************)
VARIABLES
    stbl,       \* the decoded sample-table container handed to buildSampleTable
    built,      \* what buildSampleTable returned for it
    track,      \* the Track that newRemuxer made of it (shared by all calls)
    env,        \* what the source and the sink may do: faults, short reads
    shortLeft,  \* how many more writes the sink may cut short without an error
    src,        \* the source: its length and, for a ReadSeeker, its position
    call,       \* per WriteTo / WriteToFrom call: its arguments, locals and place
    wr,         \* per Writer: the reusable buffers trunEntries, ranges, copyBuf
    sink,       \* per call: the bytes its sink has accepted, in order
    offered,    \* per call: the bytes handed to its sink's Write, in order
    io,         \* per call: the first I/O failure and the I/O issued after it
    moov,       \* the decoded moov handed to newRemuxer
    remuxer,    \* what newRemuxer returned for it
    buf,        \* the bytes that the Scanner's source holds and the Reader parses
    sc,         \* the Scanner: pos, entry, err, and the position of its source
    scanLog,    \* the calls made on the Scanner and what each returned, in order
    faultsLeft, \* how many more calls the Scanner's source may fail
    rd,         \* the Reader over buf
    rdLog,      \* the calls made on the Reader and the box each left current
    rdSnap,     \* per open frame: the Reader as it was when Enter was called
    mw,         \* the mp4 Writer
    written,    \* the Write function that was called on mw and its arguments
    readBack,   \* what the matching Read function returned for the box in mw
    it,         \* the cursor over the payload in buf
    itLog,      \* what each call of Next on the cursor returned
    sought,     \* the calls of FindSampleAfter / FindSampleBefore and their results
    located     \* what findAndParseMoov and findAndParseMoovBytes returned for buf

vars == <<stbl, built, track, env, shortLeft, src, call, wr, sink, offered, io,
          moov, remuxer, buf, sc, scanLog, faultsLeft, rd, rdLog, rdSnap,
          mw, written, readBack, it, itLog, sought, located>>

buildVars == <<stbl, built>>

streamVars == <<track, env, shortLeft, src, call, wr, sink, offered, io>>

remuxVars == <<moov, remuxer>>

scanVars == <<buf, sc, scanLog, faultsLeft>>

readerVars == <<rd, rdLog, rdSnap>>

codecVars == <<mw, written, readBack, it, itLog>>

findVars == <<sought, located>>

\* the variables of the operations other than buildSampleTable and the writer
otherVars == <<remuxVars, scanVars, readerVars, codecVars, findVars>>

\* no moov decoded, newRemuxer not called
NoRemux ==
    /\ moov = [mvhd |-> FALSE, traks |-> <<>>]
    /\ remuxer = [status |-> "none", tracks |-> <<>>]

\* no buffer, no Scanner
NoScan ==
    /\ buf = <<>>
    /\ sc = NewScanner
    /\ scanLog = <<>>
    /\ faultsLeft = 0

\* no Reader
NoReader ==
    /\ rd = NewReader(<<>>)
    /\ rdLog = <<>>
    /\ rdSnap = <<>>

\* nothing written by an mp4 Writer
NotWritten ==
    /\ mw = mp4NewWriter
    /\ written = [fn |-> "none", args |-> <<>>]
    /\ readBack = <<>>

\* no cursor
NoCursor ==
    /\ it = [kind |-> "none"]
    /\ itLog = <<>>

NoCodec == NotWritten /\ NoCursor

\* no sample sought, no moov looked for
NoFind ==
    /\ sought = <<>>
    /\ located = <<>>

\* the operations other than buildSampleTable and the writer not begun
OthersIdle == NoRemux /\ NoScan /\ NoReader /\ NoCodec /\ NoFind

\* the calls in flight and the Writer instances
Calls == {1, 2}

Writers == {1, 2}

\* both calls running on one Writer instance
WriterShared(c) == 1

\* the receiver wr of call c: one Writer per goroutine
WriterOf(c) == c

(***************************************************************************)
(* The bytes of a stream.  A box header written by one Write is one token; *)
(* a payload byte is one token that carries the source offset it was read   *)
(* from (the source holds, at every offset, a byte unlike all others).      *)
(***************************************************************************)
Tok(kind, seq, val, ver, entries, first) ==
    [kind |-> kind, seq |-> seq, val |-> val, ver |-> ver, entries |-> entries,
     first |-> first]

\* track.InitSegment()
initSegment(t) == <<Tok("init", 0, t.TrackID, 0, <<>>, 0)>>

\* the moof box writeMoof builds: mfhd sequence number, tfhd track id, tfdt
\* base media decode time, trun version and entries (first: the index of the
\* first sample of the run, kept for the record and not part of the bytes)
moofBox(seqNum, trackID, baseMediaDecodeTime, entries, trunVersion, first) ==
    <<Tok("moof", seqNum, baseMediaDecodeTime, trunVersion, entries, first)>>

\* binary.BigEndian.PutUint32(wr.mdatHdr[:4], uint32(8+mdatSize)); "mdat"
mdatHeader(mdatSize) == <<Tok("mdat", 0, toUint32(8 + mdatSize), 0, <<>>, 0)>>

\* the source bytes at offsets off .. off+n-1
sourceBytes(off, n) == [k \in 1..n |-> Tok("byte", 0, off + k - 1, 0, <<>>, 0)]

\* baseMediaDecodeTime := uint32(track.Samples[sample].DTS - dtsOffset)
baseMediaDecodeTime(dts, dtsOffset) == toUint32(dts - dtsOffset)

\* var seqNum uint32 = 1
firstSeqNum == 1

\* the sequence number left as it is
nextSeqNumStuck(seqNum) == seqNum

\* seqNum++
nextSeqNum(seqNum) == toUint32(seqNum + 1)

(***************************************************************************)
(* The sink and the source.                                                *)
(***************************************************************************)
\* len(wr.copyBuf), 32768 in the program
CopyBufLen == 2

\* most short writes of the sink in one run
MaxShortWrites == 1

\* w.Write(d): the sink takes all of d, or fails having taken a part, or takes
\* a part and reports no error
WriteOutcomes(d) ==
    {[n |-> Len(d), err |-> FALSE]}
    \cup (IF env.faults THEN {[n |-> k, err |-> TRUE] : k \in 0..Len(d)} ELSE {})
    \cup (IF shortLeft > 0
          THEN {[n |-> k, err |-> FALSE] : k \in 0..(Len(d) - 1)}
          ELSE {})

\* rs.Read(buf[:n]) with the source at position p, ra.ReadAt(buf[:n], p)
ReadOutcomes(p, n) ==
    LET avail == Max(0, Min(n, src.len - p))
    IN  (IF avail = 0
         THEN {[nr |-> 0, err |-> "eof"]}
         ELSE {[nr |-> avail, err |-> "nil"]})
        \cup (IF env.shortReads
              THEN {[nr |-> k, err |-> "nil"] : k \in 1..avail}
                   \cup (IF avail > 0 /\ p + avail = src.len
                         THEN {[nr |-> avail, err |-> "eof"]}
                         ELSE {})
              ELSE {})
        \cup (IF env.faults THEN {[nr |-> k, err |-> "fail"] : k \in 0..avail} ELSE {})

\* rs.Seek(r.Start, io.SeekStart)
SeekOutcomes == {"nil"} \cup (IF env.faults THEN {"fail"} ELSE {})

NoFailure == [failed |-> FALSE, cause |-> "none", nr |-> 0, writesAfter |-> 0,
              sourceAfter |-> 0]

\* the record of a Write call of call c that the sink answered with o
noteWrite(c, o) ==
    [io EXCEPT ![c] =
        IF @.failed
        THEN [@ EXCEPT !.writesAfter = @ + 1]
        ELSE IF o.err THEN [@ EXCEPT !.failed = TRUE, !.cause = "write"] ELSE @]

\* the record of a Seek, Read or ReadAt call of call c; bad: it returned an
\* error other than the end-of-stream of the read that completes the range
noteSource(c, bad, cause, nr) ==
    [io EXCEPT ![c] =
        IF @.failed
        THEN [@ EXCEPT !.sourceAfter = @ + 1]
        ELSE IF bad THEN [@ EXCEPT !.failed = TRUE, !.cause = cause, !.nr = nr] ELSE @]

\* w.Write(d) of call c, answered with o
SinkWrite(c, d, o) ==
    /\ sink' = [sink EXCEPT ![c] = @ \o SubSeq(d, 1, o.n)]
    /\ offered' = [offered EXCEPT ![c] = @ \o d]
    /\ io' = noteWrite(c, o)
    /\ shortLeft' = IF ~o.err /\ o.n < Len(d) THEN shortLeft - 1 ELSE shortLeft

(***************************************************************************)
(* Writer.WriteTo (method "seek") and Writer.WriteToFrom (method "readat"), *)
(* one action per stretch of code that ends with a call of the source or of *)
(* the sink.                                                               *)
(***************************************************************************)
NewCall(method, startTime, endTime) ==
    [pc |-> "start", method |-> method, startTime |-> startTime, endTime |-> endTime,
     firstSample |-> 0, dtsOffset |-> 0, endTimeScaled |-> 0, seqNum |-> 0,
     sample |-> 0, mdatSize |-> 0, nextSample |-> 0, rangeIdx |-> 0, off |-> 0,
     remaining |-> 0, nr |-> 0, rerr |-> "nil", ret |-> "none"]

NoCall == [NewCall("none", 0, 0) EXCEPT !.pc = "off"]

\* NewWriter()
NewWriter == [trunEntries |-> <<>>, ranges |-> <<>>, copyBuf |-> <<>>]

\* return err / return nil / a run-time panic
Return(c, ret) == [call EXCEPT ![c].pc = "done", ![c].ret = ret]

\* resolveRange, then w.Write(track.InitSegment())
Start(c) ==
    /\ call[c].pc = "start"
    /\ LET r == resolveRange(track, call[c].startTime, call[c].endTime)
       IN  IF r.panic
           THEN /\ call' = Return(c, "panic")
                /\ UNCHANGED <<sink, offered, io, shortLeft>>
           ELSE \E o \in WriteOutcomes(initSegment(track)) :
                  /\ SinkWrite(c, initSegment(track), o)
                  /\ call' =
                        IF o.err
                        THEN Return(c, "err")
                        ELSE [call EXCEPT ![c].pc = "frag",
                                          ![c].firstSample = r.firstSample,
                                          ![c].dtsOffset = r.dtsOffset,
                                          ![c].endTimeScaled = r.endTimeScaled,
                                          ![c].seqNum = firstSeqNum,
                                          ![c].sample = r.firstSample]
    /\ UNCHANGED <<stbl, built, track, env, src, wr>>
    /\ UNCHANGED otherVars

\* the head of the loop: the tests that end it, generateFragment, writeMoof
Frag(c) ==
    /\ call[c].pc = "frag"
    /\ LET sample == call[c].sample
           ets == call[c].endTimeScaled
           w == WriterOf(c)
       IN  IF \/ sample >= Len(track.Samples)
              \/ ets > 0 /\ ptsOf(track.Samples, sample) >= ets
           THEN /\ call' = Return(c, "nil")
                /\ UNCHANGED <<wr, sink, offered, io, shortLeft>>
           ELSE LET g == generateFragment(track, sample, ets)
                    moof == moofBox(call[c].seqNum, track.TrackID,
                                    baseMediaDecodeTime(track.Samples[sample + 1].DTS,
                                                        call[c].dtsOffset),
                                    g.trunEntries, g.trunVersion, sample)
                IN  /\ wr' = [wr EXCEPT ![w].trunEntries = g.trunEntries,
                                        ![w].ranges = g.ranges]
                    /\ IF Len(g.trunEntries) = 0
                       THEN /\ call' = Return(c, "nil")
                            /\ UNCHANGED <<sink, offered, io, shortLeft>>
                       ELSE \E o \in WriteOutcomes(moof) :
                              /\ SinkWrite(c, moof, o)
                              /\ call' =
                                    IF o.err
                                    THEN Return(c, "err")
                                    ELSE [call EXCEPT ![c].pc = "mdat",
                                                      ![c].mdatSize = g.mdatSize,
                                                      ![c].nextSample = g.nextSample]
    /\ UNCHANGED <<stbl, built, track, env, src>>
    /\ UNCHANGED otherVars

\* w.Write(wr.mdatHdr[:])
Mdat(c) ==
    /\ call[c].pc = "mdat"
    /\ \E o \in WriteOutcomes(mdatHeader(call[c].mdatSize)) :
          /\ SinkWrite(c, mdatHeader(call[c].mdatSize), o)
          /\ call' = IF o.err
                     THEN Return(c, "err")
                     ELSE [call EXCEPT ![c].pc = "range", ![c].rangeIdx = 0]
    /\ UNCHANGED <<stbl, built, track, env, src, wr>>
    /\ UNCHANGED otherVars

\* for _, r := range wr.ranges: the next range (rs.Seek to its start), or,
\* after the last, seqNum++ and sample = nextSample
Range(c) ==
    /\ call[c].pc = "range"
    /\ LET ranges == wr[WriterOf(c)].ranges
           k == call[c].rangeIdx
       IN  IF k >= Len(ranges)
           THEN /\ call' = [call EXCEPT ![c].pc = "frag",
                                        ![c].seqNum = nextSeqNum(@),
                                        ![c].sample = call[c].nextSample]
                /\ UNCHANGED <<src, io>>
           ELSE LET r == ranges[k + 1]
                    remaining == r.End - r.Start
                    entered == IF remaining > 0
                               THEN [call EXCEPT ![c].pc = "read",
                                                 ![c].off = r.Start,
                                                 ![c].remaining = remaining]
                               ELSE [call EXCEPT ![c].rangeIdx = k + 1,
                                                 ![c].off = r.Start,
                                                 ![c].remaining = remaining]
                IN  IF call[c].method = "seek"
                    THEN \E e \in SeekOutcomes :
                           /\ io' = noteSource(c, e # "nil", "seek", 0)
                           /\ IF e = "nil"
                              THEN /\ src' = [src EXCEPT !.pos = r.Start]
                                   /\ call' = entered
                              ELSE /\ src' = src
                                   /\ call' = Return(c, "err")
                    ELSE /\ call' = entered
                         /\ UNCHANGED <<src, io>>
    /\ UNCHANGED <<stbl, built, track, env, wr, sink, offered, shortLeft>>
    /\ UNCHANGED otherVars

\* rs.Read(wr.copyBuf[:n]) / ra.ReadAt(wr.copyBuf[:n], off); with nr = 0 the
\* error is looked at in the same stretch
Read(c) ==
    /\ call[c].pc = "read"
    /\ LET n == Min(CopyBufLen, call[c].remaining)
           p == IF call[c].method = "seek" THEN src.pos ELSE call[c].off
       IN  \E o \in ReadOutcomes(p, n) :
             /\ io' = noteSource(c, o.err = "fail"
                                     \/ (o.err = "eof" /\ call[c].remaining - o.nr > 0),
                                 "read", o.nr)
             /\ src' = IF call[c].method = "seek"
                       THEN [src EXCEPT !.pos = p + o.nr]
                       ELSE src
             /\ wr' = [wr EXCEPT ![WriterOf(c)].copyBuf = sourceBytes(p, o.nr)]
             /\ call' = IF o.nr > 0
                        THEN [call EXCEPT ![c].pc = "copy", ![c].nr = o.nr,
                                          ![c].rerr = o.err]
                        ELSE IF o.err # "nil"
                        THEN Return(c, "err")
                        ELSE [call EXCEPT ![c].nr = o.nr, ![c].rerr = o.err]
    /\ UNCHANGED <<stbl, built, track, env, sink, offered, shortLeft>>
    /\ UNCHANGED otherVars

\* the end of stream of any read taken for the end of the range
afterReadAnyEof(rerr, remaining) ==
    IF rerr # "nil"
    THEN IF rerr = "eof" THEN "break" ELSE "return"
    ELSE IF remaining > 0 THEN "again" ELSE "break"

\* if err != nil { if err == io.EOF && remaining == 0 { break }; return err },
\* and the test remaining > 0 of the loop
afterRead(rerr, remaining) ==
    IF rerr # "nil"
    THEN IF rerr = "eof" /\ remaining = 0 THEN "break" ELSE "return"
    ELSE IF remaining > 0 THEN "again" ELSE "break"

\* w.Write(wr.copyBuf[:nr]), then the error of the read
Copy(c) ==
    /\ call[c].pc = "copy"
    /\ LET data == SubSeq(wr[WriterOf(c)].copyBuf, 1, call[c].nr)
           remaining == call[c].remaining - call[c].nr
           off == IF call[c].method = "readat" THEN call[c].off + call[c].nr
                  ELSE call[c].off
           then == afterRead(call[c].rerr, remaining)
       IN  \E o \in WriteOutcomes(data) :
             /\ SinkWrite(c, data, o)
             /\ call' =
                   IF o.err
                   THEN Return(c, "err")
                   ELSE IF then = "return"
                   THEN [Return(c, "err") EXCEPT ![c].remaining = remaining,
                                                 ![c].off = off]
                   ELSE IF then = "again"
                   THEN [call EXCEPT ![c].pc = "read", ![c].remaining = remaining,
                                     ![c].off = off]
                   ELSE [call EXCEPT ![c].pc = "range", ![c].remaining = remaining,
                                     ![c].off = off,
                                     ![c].rangeIdx = @ + 1]
    /\ UNCHANGED <<stbl, built, track, env, src, wr>>
    /\ UNCHANGED otherVars

StreamStep(c) ==
    \/ Start(c)
    \/ Frag(c)
    \/ Mdat(c)
    \/ Range(c)
    \/ Read(c)
    \/ Copy(c)

(***************************************************************************)
(* Sample-table inputs.                                                    *)
(***************************************************************************)
DurVals == {1, 2}

\* size tables: sample i (1-based) has size 1 or 2, alternating
StszTables == {[i \in 1..n |-> 1 + ((i + 1) % 2)] : n \in 0..MaxSamples}

SttsTables ==
    SeqUpTo({SttsEntry(c, d) : c \in 0..MaxCount, d \in DurVals}, MaxSttsEntries)

StssTables == SeqUpTo(0..MaxSamples, MaxStssEntries)

StscTables ==
    {<<>>, <<StscEntry(1, 1)>>, <<StscEntry(1, 2)>>, <<StscEntry(1, 0)>>,
     <<StscEntry(1, 2), StscEntry(2, 1)>>}

\* chunk k (1-based) starts at offset 10 * (k - 1)
ChunkOffsetTables == {[k \in 1..n |-> 10 * (k - 1)] : n \in 0..MaxChunks}

\* one entry that covers every sample
WholeStts == <<SttsEntry(MaxSamples + 1, 1)>>

WholeStsc == <<StscEntry(1, MaxSamples + 1)>>

Stbl(stsz, stts, stsc, co64, stco, ctts, stss) ==
    [stsz |-> stsz, stts |-> stts, stsc |-> stsc, co64 |-> co64, stco |-> stco,
     ctts |-> ctts, stss |-> stss]

\* no track, no call: the state of the stream writer while a table is built
NoStream ==
    /\ track = Track(0, 0, <<>>)
    /\ env = [faults |-> FALSE, shortReads |-> FALSE]
    /\ shortLeft = 0
    /\ src = [len |-> 0, pos |-> 0]
    /\ call = [c \in Calls |-> NoCall]
    /\ wr = [w \in Writers |-> NewWriter]
    /\ sink = [c \in Calls |-> <<>>]
    /\ offered = [c \in Calls |-> <<>>]
    /\ io = [c \in Calls |-> NoFailure]

\* inputs that exercise the chunk and decode-time cursors
InitBuild ==
    /\ \E stsz \in StszTables, stts \in SttsTables, stsc \in StscTables,
          co \in ChunkOffsetTables, wide \in BOOLEAN, ss \in {NoStss, Stss(<<1>>)} :
          stbl = Stbl(Box(stsz), Box(stts), Box(stsc),
                      IF wide THEN Box(co) ELSE NoBox,
                      IF wide THEN NoBox ELSE Box(co),
                      NoBox, ss)
    /\ built = NotBuilt
    /\ NoStream
    /\ OthersIdle

\* inputs that exercise the sync cursor
InitSync ==
    /\ \E stsz \in StszTables, e \in StssTables,
          kind \in {"none", "nil", "entries"}, ct \in BOOLEAN :
          /\ (kind # "entries") => e = <<>>
          /\ stbl = Stbl(Box(stsz), Box(WholeStts), Box(WholeStsc),
                         NoBox, Box(<<0>>),
                         IF ct THEN Box(<<CttsEntry(1, 1), CttsEntry(1, -1)>>) ELSE NoBox,
                         CASE kind = "none" -> NoStss
                           [] kind = "nil" -> NilStss
                           [] OTHER -> Stss(e))
    /\ built = NotBuilt
    /\ NoStream
    /\ OthersIdle

\* samples, defaultSdi, err := buildSampleTable(stblBox)
Build ==
    /\ built.status = "none"
    /\ built' = buildSampleTable(stbl)
    /\ UNCHANGED stbl
    /\ UNCHANGED streamVars
    /\ UNCHANGED otherVars

NextBuild == Build

SpecBuild == InitBuild /\ [][NextBuild]_vars

SpecSync == InitSync /\ [][NextBuild]_vars

\* well-formed stsc tables: first_chunk strictly increasing from 1, with and
\* without jumps of more than one chunk, samples_per_chunk >= 1
WellFormedStsc ==
    {e \in SeqUpTo({StscEntry(f, n) : f \in 1..(MaxSamples + 1), n \in 1..MaxCount},
                   MaxSttsEntries + 1) :
        /\ Len(e) >= 1
        /\ e[1].FirstChunk = 1
        /\ \A k \in 2..Len(e) : e[k - 1].FirstChunk < e[k].FirstChunk}

\* sample i (1-based) has size i; chunk k (1-based) starts at offset 10 * k
InitChunks ==
    /\ \E n \in 0..MaxSamples, stsc \in WellFormedStsc, chunks \in 0..(MaxSamples + 1),
          wide \in BOOLEAN :
          LET co == [k \in 1..chunks |-> 10 * k]
          IN  stbl = Stbl(Box([i \in 1..n |-> i]), Box(WholeStts), Box(stsc),
                          IF wide THEN Box(co) ELSE NoBox,
                          IF wide THEN NoBox ELSE Box(co),
                          NoBox, NoStss)
    /\ built = NotBuilt
    /\ NoStream
    /\ OthersIdle

SpecChunks == InitChunks /\ [][NextBuild]_vars

(***************************************************************************)
(* Streams.                                                                *)
(***************************************************************************)
\* a duration that takes decode times past a uint32 within three samples
BigDuration == Uint32Mod \div 2

\* one chunk per sample; the first two chunks lie back to back in the source
\* (sizes 1 and 2 at offsets 0 and 1) and every later one after a gap
GapOffsets(n) == [k \in 1..n |-> IF k <= 2 THEN k - 1 ELSE 2 * k - 1]

\* the length of a source that holds every sample of the layouts used
FullLen == 2 * (MaxSamples + 1)

\* the sample tables of the tracks that are streamed
StreamStbl(n, dur, ct, ss) ==
    Stbl(Box([i \in 1..n |-> 1 + ((i + 1) % 2)]),
         Box(<<SttsEntry(MaxSamples + 1, dur)>>),
         Box(<<StscEntry(1, 1)>>),
         NoBox, Box(GapOffsets(n)),
         IF ct THEN Box(<<CttsEntry(1, 0), CttsEntry(1, 3), CttsEntry(1, -1)>>)
               ELSE NoBox,
         ss)

\* the state once newRemuxer has built the track and the calls are made
Streaming(s, ts, cs, e, short, len) ==
    /\ stbl = s
    /\ built = buildSampleTable(s)
    /\ built.status = "ok"
    /\ track = Track(1, ts, built.samples)
    /\ env = e
    /\ shortLeft = short
    /\ src = [len |-> len, pos |-> 0]
    /\ call = cs
    /\ wr = [w \in Writers |-> NewWriter]
    /\ sink = [c \in Calls |-> <<>>]
    /\ offered = [c \in Calls |-> <<>>]
    /\ io = [c \in Calls |-> NoFailure]
    /\ OthersIdle

\* one call, over a source and into a sink that may fail, cut reads short and
\* cut writes short
Init ==
    \E ss \in {NoStss, Stss(<<1>>)}, method \in {"seek", "readat"},
       endTime \in {0, 4}, len \in {FullLen, 2} :
        Streaming(StreamStbl(MaxSamples, 1, FALSE, ss), 1,
                  [c \in Calls |-> IF c = 1 THEN NewCall(method, 0, endTime) ELSE NoCall],
                  [faults |-> TRUE, shortReads |-> TRUE], MaxShortWrites, len)

Next == StreamStep(1)

Spec == Init /\ [][Next]_vars

\* one call, over a source and into a sink that work, for every track and range
InitFrag ==
    \E n \in 0..MaxSamples, dur \in {1, 2, BigDuration}, ct \in BOOLEAN,
       ss \in {NoStss, Stss(<<1>>), Stss(<<1, 3>>), Stss(<<2>>)}, ts \in {1, 2},
       method \in {"seek", "readat"},
       startTime \in {-1, 0, 1, 3, 7}, endTime \in {0, 1, 2, 4, 5} :
        Streaming(StreamStbl(n, dur, ct, ss), ts,
                  [c \in Calls |-> IF c = 1 THEN NewCall(method, startTime, endTime)
                                   ELSE NoCall],
                  [faults |-> FALSE, shortReads |-> FALSE], 0, FullLen)

SpecFrag == InitFrag /\ [][Next]_vars

\* sample sizes and offsets of StreamStbl times sz
ScaledStbl(n, sz, ss) ==
    Stbl(Box([i \in 1..n |-> sz * (1 + ((i + 1) % 2))]),
         Box(<<SttsEntry(MaxSamples + 1, 1)>>),
         Box(<<StscEntry(1, 1)>>),
         NoBox, Box([k \in 1..n |-> sz * GapOffsets(n)[k]]),
         NoBox, ss)

\* a sample size that takes the payload of three samples past a uint32
BigSize == Uint32Mod \div 4

\* one call over a source and into a sink that work, for small and for large
\* samples
InitMdat ==
    \E n \in 1..MaxSamples, sz \in {1, 2, BigSize}, ss \in {NoStss, Stss(<<1>>)},
       method \in {"seek", "readat"}, endTime \in {0, 2, 4, 8} :
        Streaming(ScaledStbl(n, sz, ss), 1,
                  [c \in Calls |-> IF c = 1 THEN NewCall(method, 0, endTime) ELSE NoCall],
                  [faults |-> FALSE, shortReads |-> FALSE], 0, sz * FullLen)

SpecMdat == InitMdat /\ [][Next]_vars

\* two WriteToFrom calls on one track and one ReaderAt, each with its Writer
InitConc ==
    \E ss \in {NoStss, Stss(<<1>>)}, end1 \in {0, 4}, end2 \in {0, 4} :
        Streaming(StreamStbl(MaxSamples, 1, FALSE, ss), 1,
                  [c \in Calls |-> NewCall("readat", 0, IF c = 1 THEN end1 ELSE end2)],
                  [faults |-> FALSE, shortReads |-> TRUE], 0, FullLen)

NextConc == \E c \in Calls : StreamStep(c)

SpecConc == InitConc /\ [][NextConc]_vars

(***************************************************************************)
(* newRemuxer over the traks of a moov.                                    *)
(***************************************************************************)
\* sample tables of one sample in one chunk
GoodStbl ==
    Stbl(Box(<<1>>), Box(<<SttsEntry(1, 1)>>), Box(<<StscEntry(1, 1)>>),
         NoBox, Box(<<0>>), NoBox, NoStss)

\* the same with one required table left out
StblVariants ==
    {GoodStbl,
     [GoodStbl EXCEPT !.stsz = NoBox],
     [GoodStbl EXCEPT !.stts = NoBox],
     [GoodStbl EXCEPT !.stsc = NoBox],
     [GoodStbl EXCEPT !.stco = NoBox]}

\* a trak with all its boxes
GoodTrak(id, kind, tables) ==
    Trak(id, TRUE, TRUE, TRUE, TRUE, TRUE, TRUE, TRUE, kind, tables)

\* the traks tried: whole ones of each kind and sample tables, and video traks
\* with one of the boxes above stsz left out
TrakVariants(id) ==
    {GoodTrak(id, kind, tables) :
        kind \in SupportedKinds \cup {"other"}, tables \in StblVariants}
    \cup {[GoodTrak(id, "vide/avc1", GoodStbl) EXCEPT ![f] = FALSE] :
            f \in {"tkhd", "mdia", "hdlr", "minf", "hasStbl", "mdhd", "stsd"}}

InitRemux ==
    /\ \E n \in 0..MaxTraks, hasMvhd \in BOOLEAN :
          \E traks \in [1..n -> UNION {TrakVariants(id) : id \in 1..n}] :
              /\ \A i \in 1..n : traks[i].id = i
              /\ moov = [mvhd |-> hasMvhd, traks |-> traks]
    /\ remuxer = [status |-> "none", tracks |-> <<>>]
    /\ stbl = Stbl(NoBox, NoBox, NoBox, NoBox, NoBox, NoBox, NoStss)
    /\ built = NotBuilt
    /\ NoStream
    /\ NoScan
    /\ NoReader
    /\ NoCodec
    /\ NoFind

\* r, err := newRemuxer(moov)
NewRemuxer ==
    /\ remuxer.status = "none"
    /\ remuxer' = newRemuxer(moov)
    /\ UNCHANGED <<moov, stbl, built>>
    /\ UNCHANGED streamVars
    /\ UNCHANGED scanVars
    /\ UNCHANGED readerVars
    /\ UNCHANGED codecVars
    /\ UNCHANGED findVars

NextRemux == NewRemuxer

SpecRemux == InitRemux /\ [][NextRemux]_vars

(***************************************************************************)
(* The Scanner over byte buffers.                                          *)
(***************************************************************************)
\* the most boxes written into a buffer, the most calls made on a Scanner, the
\* most calls that its source fails
MaxBoxes == 2

MaxScanOps == 4

MaxFaults == 2

\* the bytes of a box header with the 32-bit size field size32 (followed, when
\* that is 1, by the 64-bit size ext) and of pay bytes after it
BoxBytes(size32, t, ext, pay) ==
    bePut(size32, 4) \o t
        \o (IF size32 = 1 THEN bePut(ext, 8) ELSE <<>>)
        \o [i \in 1..pay |-> 0]

\* the boxes written: whole boxes with the short and the long header, a box
\* that reaches to the end (size 0), sizes below the header, a negative 64-bit
\* size, a size past the end of the buffer
BoxChoices ==
    {BoxBytes(8, TypeFree, 0, 0), BoxBytes(12, TypeFree, 0, 4),
     BoxBytes(12, TypeMvhd, 0, 4), BoxBytes(8, TypeMvhd, 0, 0),
     BoxBytes(0, TypeFree, 0, 2),
     BoxBytes(5, TypeFree, 0, 0), BoxBytes(5, TypeMoov, 0, 4),
     BoxBytes(1, TypeFree, 16, 0), BoxBytes(1, TypeMoov, 18, 2),
     BoxBytes(1, TypeFree, 10, 0), BoxBytes(1, TypeFree, Uint64Range - 4, 0),
     BoxBytes(1, TypeFree, 0, 1),
     BoxBytes(30, TypeFree, 0, 1)}

\* how many bytes are cut off the end of a buffer
Cuts == {0, 3, 9}

\* the buffers scanned
Buffers ==
    UNION {{SubSeq(b1 \o b2, 1, Len(b1 \o b2) - cut) :
                cut \in {c \in Cuts : c <= Len(b1 \o b2)}} :
           b1 \in BoxChoices, b2 \in BoxChoices \cup {<<>>}}

\* the error that the source returns when it fails now
FaultNow == IF faultsLeft = MaxFaults THEN "e1" ELSE "e2"

LogEntry(op, at, s, err, fault) ==
    [op |-> op, at |-> at, ok |-> s.ok, entry |-> s.entry, serr |-> s.err,
     err |-> err, rsPos |-> s.rsPos, fault |-> fault]

\* sc.Next()
ScanNext ==
    /\ Len(scanLog) < MaxScanOps
    /\ \E f \in {0} \cup ScanCalls :
          LET s == scanNext(sc, buf, f, FaultNow)
          IN  /\ f # 0 => (faultsLeft > 0 /\ s # scanNext(sc, buf, 0, FaultNow))
              /\ sc' = s
              /\ scanLog' = Append(scanLog, LogEntry("Next", sc.rsPos, s, "nil", f # 0))
              /\ faultsLeft' = IF f # 0 THEN faultsLeft - 1 ELSE faultsLeft
    /\ UNCHANGED buf
    /\ UNCHANGED <<stbl, built, moov, remuxer>>
    /\ UNCHANGED streamVars
    /\ UNCHANGED readerVars
    /\ UNCHANGED codecVars
    /\ UNCHANGED findVars

\* a fetch of the current entry into a buffer of n bytes
Fetch(op, n) ==
    /\ Len(scanLog) < MaxScanOps
    /\ sc.ok
    /\ n >= 0
    /\ \E f \in 0..3 :
          LET r == IF op = "ReadBody" THEN ReadBody(sc, buf, n, f, FaultNow)
                   ELSE ReadBox(sc, buf, n, f, FaultNow)
              r0 == IF op = "ReadBody" THEN ReadBody(sc, buf, n, 0, FaultNow)
                    ELSE ReadBox(sc, buf, n, 0, FaultNow)
              s == [sc EXCEPT !.rsPos = r.rsPos]
          IN  /\ f # 0 => (faultsLeft > 0 /\ r # r0)
              /\ sc' = s
              /\ scanLog' = Append(scanLog, LogEntry(op, sc.rsPos, s, r.err, f # 0))
              /\ faultsLeft' = IF f # 0 THEN faultsLeft - 1 ELSE faultsLeft
    /\ UNCHANGED buf
    /\ UNCHANGED <<stbl, built, moov, remuxer>>
    /\ UNCHANGED streamVars
    /\ UNCHANGED readerVars
    /\ UNCHANGED codecVars
    /\ UNCHANGED findVars

\* sc.ReadBody(buf) with len(buf) = e.DataSize()
ScanReadBody == Fetch("ReadBody", sc.entry.Size - sc.entry.HeaderSize)

\* sc.ReadBox(buf) with len(buf) = e.Size
ScanReadBox == Fetch("ReadBox", sc.entry.Size)

ScanIdleRest ==
    /\ stbl = Stbl(NoBox, NoBox, NoBox, NoBox, NoBox, NoBox, NoStss)
    /\ built = NotBuilt
    /\ NoStream
    /\ NoRemux

\* a Scanner over a source that may fail
InitScan ==
    /\ buf \in Buffers
    /\ sc = NewScanner
    /\ scanLog = <<>>
    /\ faultsLeft = MaxFaults
    /\ ScanIdleRest
    /\ NoReader
    /\ NoCodec
    /\ NoFind

\* a Scanner over a source that does not fail
InitFetch ==
    /\ buf \in Buffers
    /\ sc = NewScanner
    /\ scanLog = <<>>
    /\ faultsLeft = 0
    /\ ScanIdleRest
    /\ NoReader
    /\ NoCodec
    /\ NoFind

NextScan ==
    \/ ScanNext
    \/ ScanReadBody
    \/ ScanReadBox

SpecScan == InitScan /\ [][NextScan]_vars

SpecFetch == InitFetch /\ [][NextScan]_vars

(***************************************************************************)
(* The Reader over byte buffers.                                           *)
(***************************************************************************)
\* the most calls made on a Reader
MaxReaderOps == 7

\* the box that a call left current in the Reader, and for Exit the Reader as
\* it was at the Enter that it closes
ReaderLogEntry(op, r, snap) ==
    [op |-> op, ok |-> r.ok, panic |-> r.panic, Type |-> r.boxType,
     Size |-> r.boxSize, Offset |-> r.boxStart, DataOffset |-> r.dataStart,
     boxEnd |-> r.boxEnd, end |-> r.end, depth |-> r.depth, snap |-> snap]

ReaderFrame ==
    /\ UNCHANGED <<stbl, built, moov, remuxer>>
    /\ UNCHANGED streamVars
    /\ UNCHANGED codecVars
    /\ UNCHANGED findVars

CanCallReader == Len(rdLog) < MaxReaderOps /\ ~rd.panic

\* r.Next()
RdNext ==
    /\ CanCallReader
    /\ rd' = readerNext(rd, buf)
    /\ rdLog' = Append(rdLog, ReaderLogEntry("Next", rd', rd))
    /\ UNCHANGED <<buf, sc, scanLog, faultsLeft, rdSnap>>
    /\ ReaderFrame

\* r.Enter() on the box that Next has just yielded
RdEnter ==
    /\ CanCallReader
    /\ rd.ok
    /\ rdLog[Len(rdLog)].op = "Next"
    /\ rd' = readerEnter(rd)
    /\ rdLog' = Append(rdLog, ReaderLogEntry("Enter", rd', rd))
    /\ rdSnap' = Append(rdSnap, rd)
    /\ UNCHANGED <<buf, sc, scanLog, faultsLeft>>
    /\ ReaderFrame

\* r.Exit() out of the innermost open frame
RdExit ==
    /\ CanCallReader
    /\ rd.depth > 0
    /\ rd' = [readerExit(rd) EXCEPT !.ok = FALSE]
    /\ rdLog' = Append(rdLog, ReaderLogEntry("Exit", rd', rdSnap[Len(rdSnap)]))
    /\ rdSnap' = SubSeq(rdSnap, 1, Len(rdSnap) - 1)
    /\ UNCHANGED <<buf, sc, scanLog, faultsLeft>>
    /\ ReaderFrame

\* r.Skip(n) inside a frame
RdSkip ==
    /\ CanCallReader
    /\ rd.depth > 0
    /\ \E n \in {1, 4} :
          /\ rd' = [readerSkip(rd, n) EXCEPT !.ok = FALSE]
          /\ rdLog' = Append(rdLog, ReaderLogEntry("Skip", rd', rd))
    /\ UNCHANGED <<buf, sc, scanLog, faultsLeft, rdSnap>>
    /\ ReaderFrame

\* a box of type moov around the bytes c
Container(c) == bePut(8 + Len(c), 4) \o TypeMoov \o c

\* the boxes put into containers
Leaves ==
    {BoxBytes(8, TypeFree, 0, 0), BoxBytes(12, TypeMvhd, 0, 4),
     BoxBytes(5, TypeFree, 0, 0), BoxBytes(30, TypeFree, 0, 0),
     BoxBytes(1, TypeFree, Uint64Range - 4, 0)}

\* the buffers of nested boxes that are read
NestedBuffers ==
    LET inner == {Container(l) : l \in Leaves \cup {<<>>}}
        mid == Leaves \cup inner
        outer == {Container(m1 \o m2) : m1 \in mid, m2 \in Leaves \cup {<<>>}}
    IN  {o \o l : o \in outer \cup Leaves, l \in Leaves \cup {<<>>}}

ReaderIdleRest ==
    /\ stbl = Stbl(NoBox, NoBox, NoBox, NoBox, NoBox, NoBox, NoStss)
    /\ built = NotBuilt
    /\ NoStream
    /\ NoRemux
    /\ NoCodec
    /\ NoFind

\* a Reader over nested boxes
InitReader ==
    /\ buf \in NestedBuffers
    /\ sc = NewScanner
    /\ scanLog = <<>>
    /\ faultsLeft = 0
    /\ rd = NewReader(buf)
    /\ rdLog = <<>>
    /\ rdSnap = <<>>
    /\ ReaderIdleRest

NextReader ==
    \/ RdNext
    \/ RdEnter
    \/ RdExit
    \/ RdSkip

SpecReader == InitReader /\ [][NextReader]_vars

\* a Scanner and a Reader over the same bytes
InitAgree ==
    /\ buf \in Buffers
    /\ sc = NewScanner
    /\ scanLog = <<>>
    /\ faultsLeft = 0
    /\ rd = NewReader(buf)
    /\ rdLog = <<>>
    /\ rdSnap = <<>>
    /\ ReaderIdleRest

NextAgree ==
    \/ ScanNext
    \/ RdNext

SpecAgree == InitAgree /\ [][NextAgree]_vars

(***************************************************************************)
(* Boxes written by the mp4 Writer and read back.                          *)
(***************************************************************************)
\* the most entries of an elst that is written
MaxElstEntries == 2

\* durations and times tried: about the greatest value of a uint32
Durations == {0, 1, uint32Max, uint32Max + 1, Uint64Range - 1}

\* media times tried: about the least and the greatest value of an int32
MediaTimes ==
    {-(Uint64Range \div 2), -(Uint32Range \div 2) - 1, -(Uint32Range \div 2),
     -1, 0, Uint32Range \div 2 - 1, Uint32Range \div 2, Uint64Range \div 2 - 1}

\* other uint32 arguments tried
Words == {1, uint32Max}

ElstEntries ==
    {ElstEntry(d, m, r, 0) : d \in {1, uint32Max + 1}, m \in MediaTimes,
                             r \in {1, -1}}

ElstLists ==
    UNION {[1..n -> ElstEntries] : n \in 0..MaxElstEntries}

\* a Write function is called once, on a new Writer
CanWrite == written.fn = "none"

WriteFrame ==
    /\ UNCHANGED <<readBack, it, itLog>>
    /\ UNCHANGED <<stbl, built, moov, remuxer>>
    /\ UNCHANGED streamVars
    /\ UNCHANGED scanVars
    /\ UNCHANGED readerVars
    /\ UNCHANGED findVars

\* w.WriteMvhd(timescale, duration, nextTrackId)
WrMvhd ==
    /\ CanWrite
    /\ \E timescale \in Words, duration \in Durations, nextTrackId \in Words :
          /\ mw' = WriteMvhd(mw, timescale, duration, nextTrackId)
          /\ written' = [fn |-> "mvhd", duration |-> duration,
                         args |-> <<timescale, duration, nextTrackId>>]
    /\ WriteFrame

\* w.WriteTkhd(flags, trackId, duration, width, height)
WrTkhd ==
    /\ CanWrite
    /\ \E flags \in {0, 3}, trackId \in Words, duration \in Durations,
          width \in Words, height \in Words :
          /\ mw' = WriteTkhd(mw, flags, trackId, duration, width, height)
          /\ written' = [fn |-> "tkhd", duration |-> duration,
                         args |-> <<trackId, duration, width, height>>]
    /\ WriteFrame

\* w.WriteMdhd(timescale, duration, language)
WrMdhd ==
    /\ CanWrite
    /\ \E timescale \in Words, duration \in Durations, language \in {0, 5} :
          /\ mw' = WriteMdhd(mw, timescale, duration, language)
          /\ written' = [fn |-> "mdhd", duration |-> duration,
                         args |-> <<timescale, duration, language>>]
    /\ WriteFrame

\* w.WriteMehd(fragmentDuration)
WrMehd ==
    /\ CanWrite
    /\ \E fragmentDuration \in Durations :
          /\ mw' = WriteMehd(mw, fragmentDuration)
          /\ written' = [fn |-> "mehd", duration |-> fragmentDuration,
                         args |-> <<fragmentDuration>>]
    /\ WriteFrame

\* w.WriteTfdt(baseMediaDecodeTime)
WrTfdt ==
    /\ CanWrite
    /\ \E decodeTime \in Durations :
          /\ mw' = WriteTfdt(mw, decodeTime)
          /\ written' = [fn |-> "tfdt", duration |-> decodeTime,
                         args |-> <<decodeTime>>]
    /\ WriteFrame

\* w.WriteElst(entries)
WrElst ==
    /\ CanWrite
    /\ \E entries \in ElstLists :
          /\ mw' = WriteElst(mw, entries)
          /\ written' = [fn |-> "elst", duration |-> 0, args |-> entries]
    /\ WriteFrame

\* r := NewReader(w.Bytes()); r.Next()
writtenBox == readerNext(NewReader(mw.bytes), mw.bytes)

\* the box of type t that was written is read, with the result read
ReadBackAs(fn, t, read) ==
    /\ written.fn = fn
    /\ readBack = <<>>
    /\ readBack' = IF writtenBox.ok /\ writtenBox.boxType = t
                   THEN read
                   ELSE <<"no box">>
    /\ UNCHANGED <<mw, written, it, itLog>>
    /\ UNCHANGED <<stbl, built, moov, remuxer>>
    /\ UNCHANGED streamVars
    /\ UNCHANGED scanVars
    /\ UNCHANGED readerVars
    /\ UNCHANGED findVars

\* r.ReadMvhd()
RdMvhd == ReadBackAs("mvhd", TypeMvhd, ReadMvhd(writtenBox, mw.bytes))

\* r.ReadTkhd()
RdTkhd == ReadBackAs("tkhd", TypeTkhd, ReadTkhd(writtenBox, mw.bytes))

\* r.ReadMdhd()
RdMdhd == ReadBackAs("mdhd", TypeMdhd, ReadMdhd(writtenBox, mw.bytes))

\* r.ReadMehd()
RdMehd == ReadBackAs("mehd", TypeMehd, ReadMehd(writtenBox, mw.bytes))

\* r.ReadTfdt()
RdTfdt == ReadBackAs("tfdt", TypeTfdt, ReadTfdt(writtenBox, mw.bytes))

\* it := NewElstIter(r.Data(), r.Version()), and Next until it returns false
readElst(r, b) == <<"ok">> \o elstAll(NewElstIter(Data(r, b), r.version))

RdElst == ReadBackAs("elst", TypeElst, readElst(writtenBox, mw.bytes))

WriteIdleRest ==
    /\ stbl = Stbl(NoBox, NoBox, NoBox, NoBox, NoBox, NoBox, NoStss)
    /\ built = NotBuilt
    /\ NoStream
    /\ NoRemux
    /\ NoScan
    /\ NoReader
    /\ NoCursor
    /\ NoFind

InitWrite ==
    /\ NotWritten
    /\ WriteIdleRest

NextWrite ==
    \/ WrMvhd
    \/ WrTkhd
    \/ WrMdhd
    \/ WrMehd
    \/ WrTfdt
    \/ WrElst
    \/ RdMvhd
    \/ RdTkhd
    \/ RdMdhd
    \/ RdMehd
    \/ RdTfdt
    \/ RdElst

SpecWrite == InitWrite /\ [][NextWrite]_vars

(***************************************************************************)
(* Cursors over payloads that may be cut short.                            *)
(***************************************************************************)
\* the greatest count that a payload declares
MaxDeclared == 3

\* the most bytes of a payload
MaxPayloadLen == 48

\* the most calls of Next on a cursor
MaxCursorCalls == 5

\* the payloads: two words and then bytes, cut at any length
Payloads ==
    {SubSeq(bePut(first, 4) \o bePut(second, 4)
                \o [i \in 1..MaxPayloadLen |-> i % ByteMod], 1, n) :
        first \in 0..MaxDeclared, second \in 0..MaxDeclared,
        n \in 0..MaxPayloadLen}

\* the flags of the truns that are read
TrunFlagChoices ==
    {{}, {"DataOffset"}, {"FirstSampleFlags", "SampleSize"},
     {"DataOffset", "SampleDuration", "SampleSize"},
     {"SampleDuration", "SampleSize", "SampleFlags"}, TrunFlags}

Cursor(kind, version, flags, c) ==
    [kind |-> kind, version |-> version, flags |-> flags, c |-> c]

\* the cursors made over the payload data
CursorsOver(data) ==
    {Cursor("stsz", 0, {}, NewStszIter(data)),
     Cursor("co64", 0, {}, NewCountIter(data)),
     Cursor("stts", 0, {}, NewCountIter(data)),
     Cursor("stsc", 0, {}, NewCountIter(data)),
     Cursor("uint32", 0, {}, NewCountIter(data))}
    \cup {Cursor("ctts", v, {}, NewCttsIter(data, v)) : v \in {0, 1}}
    \cup {Cursor("elst", v, {}, NewElstIter(data, v)) : v \in {0, 1, 2}}
    \cup {Cursor("trun", 0, f, NewTrunIter(data, f)) : f \in TrunFlagChoices}

\* it.Next() on the cursor of the kind, with n what its Next returns
CursorCall(kind, n) ==
    /\ it.kind = kind
    /\ Len(itLog) < MaxCursorCalls
    /\ (itLog # <<>> => ~itLog[Len(itLog)].panic)
    /\ it' = [it EXCEPT !.c = n.it]
    /\ itLog' = Append(itLog, [ok |-> n.ok, e |-> n.e, panic |-> n.panic])
    /\ UNCHANGED <<mw, written, readBack>>
    /\ UNCHANGED <<buf, sc, scanLog, faultsLeft>>
    /\ UNCHANGED <<stbl, built, moov, remuxer>>
    /\ UNCHANGED streamVars
    /\ UNCHANGED readerVars
    /\ UNCHANGED findVars

StszNext == CursorCall("stsz", stszNext(it.c))

Co64Next == CursorCall("co64", co64Next(it.c))

SttsNext == CursorCall("stts", sttsNext(it.c))

CttsNext == CursorCall("ctts", cttsNext(it.c))

StscNext == CursorCall("stsc", stscNext(it.c))

ElstNext == CursorCall("elst", elstNext(it.c))

TrunNext == CursorCall("trun", trunNext(it.c))

Uint32Next == CursorCall("uint32", uint32Next(it.c))

InitCursor ==
    /\ buf \in Payloads
    /\ it \in CursorsOver(buf)
    /\ itLog = <<>>
    /\ sc = NewScanner
    /\ scanLog = <<>>
    /\ faultsLeft = 0
    /\ stbl = Stbl(NoBox, NoBox, NoBox, NoBox, NoBox, NoBox, NoStss)
    /\ built = NotBuilt
    /\ NoStream
    /\ NoRemux
    /\ NoReader
    /\ NotWritten
    /\ NoFind

NextCursor ==
    \/ StszNext
    \/ Co64Next
    \/ SttsNext
    \/ CttsNext
    \/ StscNext
    \/ ElstNext
    \/ TrunNext
    \/ Uint32Next

SpecCursor == InitCursor /\ [][NextCursor]_vars

(***************************************************************************)
(* Seeking in a Track.                                                     *)
(***************************************************************************)
\* the times sought, in half seconds: from before the first pts to past the last
MaxSeekTime == 8

SeekTimes == -1..MaxSeekTime

\* composition offsets: none, and offsets that put pts out of decode order
CttsChoices ==
    {NoBox, Box(<<CttsEntry(1, 1), CttsEntry(1, -1)>>),
     Box(<<CttsEntry(1, 3), CttsEntry(2, 0)>>),
     Box(<<CttsEntry(1, 0), CttsEntry(1, 2), CttsEntry(1, 0)>>)}

SeekFrame ==
    /\ UNCHANGED <<stbl, built>>
    /\ UNCHANGED streamVars
    /\ UNCHANGED <<remuxVars, scanVars, readerVars, codecVars>>
    /\ UNCHANGED located

\* t.FindSampleAfter(t1) and t.FindSampleAfter(t2), for two times
SeekAfter ==
    /\ sought = <<>>
    /\ \E t1 \in SeekTimes, t2 \in SeekTimes :
          sought' = <<[fn |-> "After", time |-> t1,
                       idx |-> FindSampleAfter(track, t1)],
                      [fn |-> "After", time |-> t2,
                       idx |-> FindSampleAfter(track, t2)]>>
    /\ SeekFrame

\* idx := t.FindSampleBefore(timeSeconds)
SeekBefore ==
    /\ sought = <<>>
    /\ \E time \in SeekTimes :
          sought' = <<[fn |-> "Before", time |-> time,
                       idx |-> FindSampleBefore(track, time)]>>
    /\ SeekFrame

\* a Track as newRemuxer makes it of a sample table, with no call on it
InitSeek ==
    /\ \E stsz \in StszTables, e \in StssTables, ct \in CttsChoices,
          kind \in {"none", "nil", "entries"} :
          /\ (kind # "entries") => e = <<>>
          /\ stbl = Stbl(Box(stsz), Box(WholeStts), Box(WholeStsc),
                         NoBox, Box(<<0>>), ct,
                         CASE kind = "none" -> NoStss
                           [] kind = "nil" -> NilStss
                           [] OTHER -> Stss(e))
    /\ built = buildSampleTable(stbl)
    /\ built.status = "ok"
    /\ \E ts \in {1, 3} : track = Track(1, ts, built.samples)
    /\ env = [faults |-> FALSE, shortReads |-> FALSE]
    /\ shortLeft = 0
    /\ src = [len |-> 0, pos |-> 0]
    /\ call = [c \in Calls |-> NoCall]
    /\ wr = [w \in Writers |-> NewWriter]
    /\ sink = [c \in Calls |-> <<>>]
    /\ offered = [c \in Calls |-> <<>>]
    /\ io = [c \in Calls |-> NoFailure]
    /\ NoRemux
    /\ NoScan
    /\ NoReader
    /\ NoCodec
    /\ NoFind

NextSeek ==
    \/ SeekAfter
    \/ SeekBefore

SpecSeek == InitSeek /\ [][NextSeek]_vars

(***************************************************************************)
(* findAndParseMoov and findAndParseMoovBytes: the moov box of a file.     *)
(* mp4.Decode is handed bytes and bounds; what it is handed is the result. *)
(***************************************************************************)
\* a moov box returned: the bytes handed to mp4.Decode
MoovFound(box) == [status |-> "ok", box |-> box, err |-> "nil"]

\* an error returned
MoovError(err) == [status |-> "error", box |-> <<>>, err |-> err]

\* a run-time panic: make([]byte, size) with size < 0, buf[:8] with size < 8
MoovPanic == [status |-> "panic", box |-> <<>>, err |-> "nil"]

\* the loop of findAndParseMoov with the source at position pos
RECURSIVE findMoovFrom(_, _)
findMoovFrom(b, pos) ==
    LET hdr == readFull(b, pos, 8, FALSE, "nil")
    IN  IF hdr.err # "nil"
        THEN MoovError("moov box not found")
        ELSE
            LET size32 == beUint(SubSeq(hdr.data, 1, 4))
                boxType == SubSeq(hdr.data, 5, 8)
                ext == readFull(b, hdr.pos, 8, FALSE, "nil")
            IN  IF size32 = 1 /\ ext.err # "nil"
                THEN MoovError(ext.err)
                ELSE
                    LET size == IF size32 = 1 THEN toInt64(beUint(ext.data))
                                ELSE size32
                        at == IF size32 = 1 THEN ext.pos ELSE hdr.pos
                    IN  IF boxType = TypeMoov
                        THEN IF size < 8
                             THEN MoovPanic
                             ELSE LET body == readFull(b, at, size - 8, FALSE, "nil")
                                  IN  IF body.err # "nil"
                                      THEN MoovError("reading moov")
                                      ELSE MoovFound(hdr.data \o body.data)
                        ELSE LET skip == size - 8
                             IN  findMoovFrom(b, IF skip > 0 THEN at + skip ELSE at)

findAndParseMoov(b) == findMoovFrom(b, 0)

\* the loop of findAndParseMoovBytes with ptr where it is
RECURSIVE findMoovBytesFrom(_, _)
findMoovBytesFrom(data, ptr) ==
    IF ptr + 8 <= Len(data)
    THEN LET size32 == beUint(SubSeq(data, ptr + 1, ptr + 4))
             boxType == SubSeq(data, ptr + 5, ptr + 8)
         IN  IF size32 < 8
             THEN MoovError("invalid box size")
             ELSE LET size == IF size32 = 1 /\ ptr + 16 <= Len(data)
                              THEN toInt64(beUint(SubSeq(data, ptr + 9, ptr + 16)))
                              ELSE size32
                  IN  IF boxType = TypeMoov
                      THEN IF ptr + size <= Len(data)
                           THEN MoovFound(SubSeq(data, ptr + 1, ptr + size))
                           ELSE MoovError("decoding moov")
                      ELSE findMoovBytesFrom(data, ptr + size)
    ELSE MoovError("moov box not found")

findAndParseMoovBytes(data) == findMoovBytesFrom(data, 0)

\* most top-level boxes of a file
MaxTopBoxes == 3

\* the top-level boxes of the files: free, mvhd and moov boxes with the short
\* header, with and without payload, free and moov boxes with the 64-bit
\* extended size
TopBoxChoices ==
    {BoxBytes(8, TypeFree, 0, 0), BoxBytes(12, TypeFree, 0, 4),
     BoxBytes(12, TypeMvhd, 0, 4),
     BoxBytes(8, TypeMoov, 0, 0), BoxBytes(12, TypeMoov, 0, 4),
     BoxBytes(1, TypeFree, 16, 0), BoxBytes(1, TypeFree, 20, 4),
     BoxBytes(1, TypeMoov, 18, 2)}

RECURSIVE Concat(_)
Concat(boxes) ==
    IF boxes = <<>> THEN <<>> ELSE Head(boxes) \o Concat(Tail(boxes))

\* the files: up to MaxTopBoxes whole boxes
Files == {Concat(boxes) : boxes \in SeqUpTo(TopBoxChoices, MaxTopBoxes)}

LocateFrame ==
    /\ UNCHANGED <<stbl, built>>
    /\ UNCHANGED streamVars
    /\ UNCHANGED <<remuxVars, scanVars, readerVars, codecVars>>
    /\ UNCHANGED sought

\* moov, err := findAndParseMoov(rs), rs a seekable source over the file
FindAndParseMoov ==
    /\ \A i \in 1..Len(located) : located[i].fn # "findAndParseMoov"
    /\ located' = Append(located, [fn |-> "findAndParseMoov",
                                   res |-> findAndParseMoov(buf)])
    /\ LocateFrame

\* moov, err := findAndParseMoovBytes(data), data the bytes of the file
FindAndParseMoovBytes ==
    /\ \A i \in 1..Len(located) : located[i].fn # "findAndParseMoovBytes"
    /\ located' = Append(located, [fn |-> "findAndParseMoovBytes",
                                   res |-> findAndParseMoovBytes(buf)])
    /\ LocateFrame

InitLocate ==
    /\ buf \in Files
    /\ sc = NewScanner
    /\ scanLog = <<>>
    /\ faultsLeft = 0
    /\ ScanIdleRest
    /\ NoReader
    /\ NoCodec
    /\ NoFind

NextLocate == FindAndParseMoov \/ FindAndParseMoovBytes

SpecLocate == InitLocate /\ [][NextLocate]_vars

(***************************************************************************)
(* Properties of buildSampleTable.                                         *)
(***************************************************************************)
RECURSIVE SttsExpansion(_)
\* the run-length expansion of stts: entry k stands for Count_k samples of Duration_k
SttsExpansion(entries) ==
    IF entries = <<>>
    THEN <<>>
    ELSE [j \in 1..entries[1].Count |-> entries[1].Duration]
            \o SttsExpansion(Tail(entries))

\* samples[0].DTS = 0 and samples[i+1].DTS = samples[i].DTS + samples[i].Duration
DtsChain(samples) ==
    /\ (Len(samples) > 0 => samples[1].DTS = 0)
    /\ \A i \in 1..(Len(samples) - 1) :
          samples[i + 1].DTS = samples[i].DTS + samples[i].Duration

\* sample i carries the duration of the i-th element of the expansion of stts
DurationsFollowStts(samples, entries) ==
    LET exp == SttsExpansion(entries)
    IN  \A i \in 1..Len(samples) : i <= Len(exp) /\ samples[i].Duration = exp[i]

\* C7: in every built sample table samples[0].DTS = 0, samples[i+1].DTS =
\* samples[i].DTS + samples[i].Duration, and samples[i].Duration is the duration
\* of the i-th element of the run-length expansion of stts.
C7_DurationsFollowStts ==
    built.status = "ok" =>
        /\ DtsChain(built.samples)
        /\ DurationsFollowStts(built.samples, stbl.stts.entries)

\* what does hold: the same for the stts tables whose entries all have a count of
\* at least 1; an entry of count 0 is what gives a sample a duration that the
\* expansion does not give it
DurationsFollowPositiveStts ==
    (/\ built.status = "ok"
     /\ \A k \in 1..Len(stbl.stts.entries) : stbl.stts.entries[k].Count >= 1) =>
        /\ DtsChain(built.samples)
        /\ DurationsFollowStts(built.samples, stbl.stts.entries)

\* the sum of the counts of an stts table
RECURSIVE SttsTotal(_)
SttsTotal(entries) ==
    IF entries = <<>> THEN 0 ELSE entries[1].Count + SttsTotal(Tail(entries))

\* a per-sample cursor would read past its backing table: stsz declares more
\* samples than stts covers, stsc is empty while samples exist, or the run of
\* the cursors indexes past a table
ReadsPastTable(s) ==
    /\ s.stsz.present /\ s.stts.present /\ s.stsc.present
    /\ s.co64.present \/ s.stco.present
    /\ \/ Len(s.stsz.entries) > 0 /\ s.stsc.entries = <<>>
       \/ Len(s.stsz.entries) > 0 /\ s.stts.entries = <<>>
       \/ buildLoop(s, 0, cursor0, <<>>).status = "panic"

\* C8: when a per-sample cursor would read past its backing table,
\* buildSampleTable returns an error: no sample table, no crash.
C8_OverrunIsRejected ==
    (built.status # "none" /\ ReadsPastTable(stbl)) => built.status = "error"

\* C9 as stated: the first sample is a sync sample whenever an stss table is
\* present, whatever its entries; with no stss table every sample is one.
C9_FirstSampleSyncAnyStss ==
    built.status = "ok" =>
        /\ (stbl.stss.present /\ Len(built.samples) > 0) => built.samples[1].Sync
        /\ ~stbl.stss.present =>
              \A i \in 1..Len(built.samples) : built.samples[i].Sync

\* C9, amended: the first sample is a sync sample whenever an stss table is
\* present and its first entry is 1 (it is not one when the entry list is empty
\* or starts with another number); with no stss table every sample is a sync
\* sample.
C9_FirstSampleSync ==
    (built.status = "ok" /\ Len(built.samples) > 0) =>
        /\ hasSyncEntries(stbl) =>
              (built.samples[1].Sync <=>
                  (stbl.stss.entries # <<>> /\ stbl.stss.entries[1] = 1))
        /\ ~stbl.stss.present =>
              \A i \in 1..Len(built.samples) : built.samples[i].Sync

\* a built track with an stss table that starts with sample 1 and whose second
\* sample is not a sync sample
C9_Witness ==
    /\ built.status = "ok"
    /\ Len(built.samples) >= 2
    /\ hasSyncEntries(stbl)
    /\ stbl.stss.entries # <<>>
    /\ stbl.stss.entries[1] = 1
    /\ built.samples[1].Sync
    /\ ~built.samples[2].Sync

\* sample number i (1-based) is listed in stss
ListedInStss(entries, i) == \E k \in 1..Len(entries) : entries[k] = i

StrictlyIncreasingFrom1(entries) ==
    /\ \A k \in 1..Len(entries) : entries[k] >= 1
    /\ \A k \in 1..(Len(entries) - 1) : entries[k] < entries[k + 1]

Positions(s, kind) == {i \in 1..Len(s) : s[i].kind = kind}

IsByte(tok) == tok.kind = "byte"

RECURSIVE SamplePayload(_, _, _)
\* the source bytes of n samples from sample `first` (0-based) on, in decode order
SamplePayload(samples, first, n) ==
    IF n = 0
    THEN <<>>
    ELSE sourceBytes(samples[first + 1].Offset, samples[first + 1].Size)
            \o SamplePayload(samples, first + 1, n - 1)

IsPrefix(a, b) == Len(a) <= Len(b) /\ a = SubSeq(b, 1, Len(a))

\* the position of the first moof after position i, or Len(s) + 1
NextMoof(s, i) ==
    IF \E j \in (i + 1)..Len(s) : s[j].kind = "moof"
    THEN CHOOSE j \in (i + 1)..Len(s) :
            /\ s[j].kind = "moof"
            /\ \A k \in (i + 1)..(j - 1) : s[k].kind # "moof"
    ELSE Len(s) + 1

\* init first and once; the k-th moof numbered k; after each moof its mdat
\* header; after the header the payload of that fragment and nothing else, all
\* of it before the next moof
StreamInOrder(s, samples) ==
    /\ s # <<>> => s[1].kind = "init"
    /\ \A i \in 2..Len(s) : s[i].kind # "init"
    /\ \A i \in Positions(s, "moof") :
          /\ s[i].seq = Cardinality({j \in 1..i : s[j].kind = "moof"})
          /\ i > 1 /\ s[i - 1].kind \in {"init", "byte"}
          /\ i < Len(s) => s[i + 1].kind = "mdat"
    /\ \A i \in Positions(s, "mdat") :
          /\ i > 1 /\ s[i - 1].kind = "moof"
          /\ LET payload == SamplePayload(samples, s[i - 1].first,
                                          Len(s[i - 1].entries))
                 nxt == NextMoof(s, i)
                 got == SubSeq(s, i + 1, nxt - 1)
             IN  /\ s[i].val = 8 + Len(payload)
                 /\ IsPrefix(got, payload)
                 /\ nxt <= Len(s) => got = payload
    /\ \A i \in Positions(s, "byte") : \E j \in 1..(i - 1) : s[j].kind = "mdat"

\* C1: within one call the sink is handed the init segment first, then for the
\* k-th fragment a moof with sequence number k, the mdat header and that
\* fragment's payload; no byte of a fragment before the last of the one before.
C1_StreamInOrder == StreamInOrder(offered[1], track.Samples)

\* a stream of three whole fragments
C1_Witness ==
    /\ call[1].pc = "done"
    /\ call[1].ret = "nil"
    /\ \E i \in Positions(offered[1], "moof") : offered[1][i].seq = 3
    /\ offered[1][Len(offered[1])].kind = "byte"

\* the samples (0-based indices) of the runs of the moofs of a stream
Emitted(s) ==
    UNION {{s[i].first + k : k \in 0..(Len(s[i].entries) - 1)} : i \in Positions(s, "moof")}

\* the first sample from `first` on whose pts reaches endTimeScaled, or the
\* number of samples
FirstPast(samples, first, endTimeScaled) ==
    IF \E i \in first..(Len(samples) - 1) : ptsOf(samples, i) >= endTimeScaled
    THEN CHOOSE i \in first..(Len(samples) - 1) :
            /\ ptsOf(samples, i) >= endTimeScaled
            /\ \A j \in first..(i - 1) : ptsOf(samples, j) < endTimeScaled
    ELSE Len(samples)

\* the call has resolved its range and has an end time
HasEndTime(c) ==
    /\ call[c].pc \notin {"off", "start"}
    /\ call[c].ret # "panic"
    /\ call[c].endTimeScaled > 0

\* C2: with an end time (end_time_scaled > 0) no sample whose pts is >=
\* end_time_scaled is in an emitted fragment; emission stops at the first sample
\* from the start sample on whose pts reaches it, and every sample before that
\* one is emitted.
C2_StopsAtEndTime ==
    HasEndTime(1) =>
        LET stop == FirstPast(track.Samples, call[1].firstSample, call[1].endTimeScaled)
        IN  /\ \A i \in Emitted(offered[1]) :
                  /\ ptsOf(track.Samples, i) < call[1].endTimeScaled
                  /\ call[1].firstSample <= i /\ i < stop
            /\ (call[1].pc = "done" /\ call[1].ret = "nil") =>
                  Emitted(offered[1]) = call[1].firstSample..(stop - 1)

\* a finished stream that stopped at a sample past the end time, before the
\* last sample, with a later sample whose pts is below the end time
C2_Witness ==
    /\ HasEndTime(1)
    /\ call[1].pc = "done"
    /\ call[1].ret = "nil"
    /\ Emitted(offered[1]) # {}
    /\ LET stop == FirstPast(track.Samples, call[1].firstSample, call[1].endTimeScaled)
       IN  \E j \in (stop + 1)..(Len(track.Samples) - 1) :
              ptsOf(track.Samples, j) < call[1].endTimeScaled

\* the decode time of the first sample of a run, from the start of the stream
DecodeTimeFromStart(c, tok) == track.Samples[tok.first + 1].DTS - call[c].dtsOffset

\* C3: the tfdt values of consecutive fragments are non-decreasing, 0
\* for the first fragment and (dts of its first sample - dts of the stream's
\* first sample) for each later one, whatever the magnitude of the decode times.
C3_TfdtNonDecreasing ==
    LET s == offered[1]
    IN  \A i \in Positions(s, "moof") :
          /\ s[i].val = DecodeTimeFromStart(1, s[i])
          /\ \A j \in Positions(s, "moof") : i < j => s[i].val <= s[j].val

\* what does hold: the tfdt of the first fragment is 0 and that of each later one
\* is (dts of its first sample - dts of the stream's first sample) modulo 2^32;
\* the values are non-decreasing as long as that difference is below 2^32
TfdtNonDecreasingBelowWrap ==
    LET s == offered[1]
    IN  \A i \in Positions(s, "moof") :
          /\ s[i].val = DecodeTimeFromStart(1, s[i]) % Uint32Mod
          /\ s[i].seq = 1 => s[i].val = 0
          /\ \A j \in Positions(s, "moof") :
                (i < j /\ DecodeTimeFromStart(1, s[j]) < Uint32Mod) =>
                    s[i].val <= s[j].val

\* C4 as stated: once a sink Write or a source Seek/Read/ReadAt has returned an
\* error (other than end-of-stream on the read that completes a range), the call
\* issues no further sink write and no further source read, and returns an error.
C4_NoIoAfterError ==
    io[1].failed =>
        /\ io[1].writesAfter = 0
        /\ io[1].sourceAfter = 0
        /\ call[1].pc = "done" => call[1].ret = "err"

\* C4, amended: once a sink Write or a source Seek/Read/ReadAt has returned an
\* error (other than end-of-stream on the read that completes a range), the call
\* issues no further source call and no further sink write, except for the one
\* write of the bytes that a failing Read/ReadAt returned along with its error,
\* and returns an error.
C4_AbortsOnError ==
    io[1].failed =>
        /\ io[1].sourceAfter = 0
        /\ io[1].writesAfter <= (IF io[1].cause = "read" /\ io[1].nr > 0 THEN 1 ELSE 0)
        /\ call[1].pc \in {"done", "copy"}
        /\ call[1].pc = "copy" =>
              /\ io[1].cause = "read" /\ io[1].nr = call[1].nr /\ io[1].writesAfter = 0
        /\ call[1].pc = "done" => call[1].ret = "err"

\* a call that returned an error after a source that ended inside a range
C4_Witness ==
    /\ io[1].failed
    /\ io[1].cause = "read"
    /\ call[1].rerr = "eof"
    /\ io[1].nr > 0
    /\ io[1].writesAfter = 1
    /\ call[1].pc = "done"
    /\ call[1].ret = "err"

RECURSIVE StreamPayload(_, _, _)
\* the payload of all fragments whose moof is among s[i..]
StreamPayload(s, i, samples) ==
    IF i > Len(s)
    THEN <<>>
    ELSE (IF s[i].kind = "moof"
          THEN SamplePayload(samples, s[i].first, Len(s[i].entries))
          ELSE <<>>) \o StreamPayload(s, i + 1, samples)

\* C5: of every coalesced range of every fragment exactly End-Start bytes of the
\* source reach the sink, in order, also with short reads and with short writes
\* that report no error; a source that ends early makes the call return an error.
C5_RangesDelivered ==
    (call[1].pc = "done" /\ call[1].ret = "nil") =>
        SelectSeq(sink[1], IsByte) = StreamPayload(offered[1], 1, track.Samples)

RECURSIVE rangesPayload(_, _)
\* the bytes of the ranges k+1.. of a fragment, as copied from the source
rangesPayload(ranges, k) ==
    IF k >= Len(ranges)
    THEN <<>>
    ELSE sourceBytes(ranges[k + 1].Start, ranges[k + 1].End - ranges[k + 1].Start)
            \o rangesPayload(ranges, k + 1)

RECURSIVE fragmentsFrom(_, _, _, _, _)
\* the loop of WriteToFrom run to its end with no other call in between
fragmentsFrom(t, sample, seqNum, dtsOffset, endTimeScaled) ==
    IF \/ sample >= Len(t.Samples)
       \/ endTimeScaled > 0 /\ ptsOf(t.Samples, sample) >= endTimeScaled
    THEN <<>>
    ELSE LET g == generateFragment(t, sample, endTimeScaled)
         IN  IF Len(g.trunEntries) = 0
             THEN <<>>
             ELSE moofBox(seqNum, t.TrackID,
                          baseMediaDecodeTime(t.Samples[sample + 1].DTS, dtsOffset),
                          g.trunEntries, g.trunVersion, sample)
                    \o mdatHeader(g.mdatSize)
                    \o rangesPayload(g.ranges, 0)
                    \o fragmentsFrom(t, g.nextSample, nextSeqNum(seqNum), dtsOffset,
                                     endTimeScaled)

\* the bytes a call delivers when it runs alone over a source that holds them
streamAlone(t, startTime, endTime) ==
    LET r == resolveRange(t, startTime, endTime)
    IN  IF r.panic
        THEN <<>>
        ELSE initSegment(t)
                \o fragmentsFrom(t, r.firstSample, firstSeqNum, r.dtsOffset,
                                 r.endTimeScaled)

\* each call has delivered a part of what it delivers alone, and all of it once
\* it has returned
DeliversAsAlone ==
    \A c \in Calls :
        LET alone == streamAlone(track, call[c].startTime, call[c].endTime)
        IN  /\ IsPrefix(sink[c], alone)
            /\ call[c].pc = "done" => (call[c].ret = "nil" /\ sink[c] = alone)

\* a step of a call leaves the track and the Writer of the other call as they are
LeavesOthersAlone ==
    /\ track' = track
    /\ \A c \in Calls : call'[c] # call[c] =>
          \A d \in Calls \ {c} : wr'[d] = wr[d] /\ call'[d] = call[d]

\* C6: two WriteToFrom calls that run concurrently on distinct Writers and share
\* one ReaderAt and one Track deliver, under every interleaving, to their own
\* sinks the bytes each delivers alone; neither modifies the Track or the other
\* Writer.
C6_ConcurrentAsAlone == [](DeliversAsAlone) /\ [][LeavesOthersAlone]_vars

\* both calls in the middle of their streams at once, on different fragments
C6_Witness ==
    /\ call[1].pc = "copy"
    /\ call[2].pc = "read"
    /\ call[1].seqNum = 1
    /\ call[2].seqNum = 2
    /\ call[1].endTime # call[2].endTime

(***************************************************************************)
(* Properties of newRemuxer.                                               *)
(***************************************************************************)
\* the trak lacks one of the required boxes
LacksRequiredBox(trak) ==
    \/ ~headerBoxesPresent(trak)
    \/ ~trak.tables.stsz.present
    \/ ~trak.tables.stts.present
    \/ ~trak.tables.stsc.present
    \/ ~(trak.tables.stco.present \/ trak.tables.co64.present)

\* the trak has every required box and a codec that is remuxed
Playable(trak) == ~LacksRequiredBox(trak) /\ trak.kind \in SupportedKinds

\* the playable traks that are the first of their kind among the playable ones
FirstPlayable(traks) ==
    {i \in 1..Len(traks) :
        /\ Playable(traks[i])
        /\ \A j \in 1..(i - 1) : Playable(traks[j]) => traks[j].kind # traks[i].kind}

\* C11: a missing required box is fatal to that track only: when one trak lacks
\* a required box and another trak of the moov is playable, newRemuxer succeeds
\* and exposes the playable tracks; it fails only when no playable track remains.
C11_MissingBoxFatalToTrackOnly ==
    (/\ remuxer.status # "none"
     /\ moov.mvhd
     /\ \E i \in 1..Len(moov.traks) : LacksRequiredBox(moov.traks[i])
     /\ \E i \in 1..Len(moov.traks) : Playable(moov.traks[i])) =>
        /\ remuxer.status = "ok"
        /\ {remuxer.tracks[k].TrackID : k \in 1..Len(remuxer.tracks)}
              = {moov.traks[i].id : i \in FirstPlayable(moov.traks)}

\* what does hold: the same when the box that is missing is one of those above
\* the sample tables (tkhd, mdia, mdhd, hdlr, minf, stbl, stsd), or when the
\* trak that lacks a sample table has a codec that is not remuxed or comes
\* after a track of its kind
MissingHeaderBoxFatalToTrackOnly ==
    (/\ remuxer.status # "none"
     /\ moov.mvhd
     /\ \A i \in 1..Len(moov.traks) :
           \/ ~headerBoxesPresent(moov.traks[i])
           \/ ~LacksRequiredBox(moov.traks[i])
           \/ moov.traks[i].kind \notin SupportedKinds
           \/ \E j \in 1..(i - 1) : /\ Playable(moov.traks[j])
                                    /\ moov.traks[j].kind = moov.traks[i].kind) =>
        IF \E i \in 1..Len(moov.traks) : Playable(moov.traks[i])
        THEN /\ remuxer.status = "ok"
             /\ {remuxer.tracks[k].TrackID : k \in 1..Len(remuxer.tracks)}
                   = {moov.traks[i].id : i \in FirstPlayable(moov.traks)}
        ELSE remuxer.status = "error"

(***************************************************************************)
(* Properties of the Scanner.                                              *)
(***************************************************************************)
\* the calls of Next in the log
NextCalls == {i \in 1..Len(scanLog) : scanLog[i].op = "Next"}

\* the source has not failed in any of the first i calls
NoFaultUpTo(i) == \A j \in 1..i : ~scanLog[j].fault

\* the bytes left in b from position at on
Remaining(b, at) == IF at >= Len(b) THEN 0 ELSE Len(b) - at

\* the 32-bit size field of the header at position at
SizeFieldAt(b, at) == beUint(SubSeq(b, at + 1, at + 4))

\* the source ends before the header at position at is complete
HeaderCut(b, at) ==
    \/ Remaining(b, at) < 8
    \/ SizeFieldAt(b, at) = 1 /\ Remaining(b, at) < 16

\* C12: when the source ends before a box header is complete (fewer than 8
\* header bytes left, or a 32-bit size of 1 and fewer than 8 bytes of the
\* extended size left), Next returns false and Err() returns nil.
C12_ShortHeaderIsEndOfStream ==
    \A i \in NextCalls :
        (NoFaultUpTo(i) /\ HeaderCut(buf, scanLog[i].at)) =>
            /\ ~scanLog[i].ok
            /\ scanLog[i].serr = "nil"

\* the header at position at is complete and declares a total size that is
\* negative or below the header minimum
SubMinimumSize(b, at) ==
    \/ /\ Remaining(b, at) >= 8
       /\ SizeFieldAt(b, at) \in 2..7
    \/ /\ Remaining(b, at) >= 16
       /\ SizeFieldAt(b, at) = 1
       /\ toInt64(beUint(SubSeq(b, at + 9, at + 16))) < 16

\* C13: a top-level header whose declared total size is negative or below the
\* header minimum ends the iteration: Next returns false for it and no entry is
\* yielded for it or after it.
C13_SubMinimumSizeStops ==
    \A i \in NextCalls :
        (NoFaultUpTo(Len(scanLog)) /\ SubMinimumSize(buf, scanLog[i].at)) =>
            \A j \in NextCalls : j >= i => ~scanLog[j].ok

\* the first error other than EOF that a call of Next among the first i calls
\* met
FirstError(i) ==
    IF \E j \in 1..i : scanLog[j].op = "Next" /\ scanLog[j].fault
    THEN "e1"
    ELSE "nil"

\* C14: once Next has returned false, every later call of Next returns false and
\* Err() keeps returning the first non-EOF error that occurred (nil if none),
\* whatever the source does on later calls.
C14_TerminationIsSticky ==
    \A i \in NextCalls :
        ~scanLog[i].ok =>
            \A j \in NextCalls : j >= i =>
                /\ ~scanLog[j].ok
                /\ scanLog[j].serr = FirstError(j)

RECURSIVE scanRun(_, _, _)
\* what k calls of Next yield with nothing between them
scanRun(s, b, k) ==
    IF k = 0
    THEN <<>>
    ELSE LET n == scanNext(s, b, 0, "nil")
         IN  <<[ok |-> n.ok, entry |-> n.entry]>> \o scanRun(n, b, k - 1)

\* what the calls of Next in the log returned, in order
Yielded ==
    LET RECURSIVE pick(_)
        pick(i) ==
            IF i > Len(scanLog)
            THEN <<>>
            ELSE (IF scanLog[i].op = "Next"
                  THEN <<[ok |-> scanLog[i].ok, entry |-> scanLog[i].entry]>>
                  ELSE <<>>) \o pick(i + 1)
    IN  pick(1)

\* C15: with any number of successful ReadBody / ReadBox calls on the current
\* entry between the calls of Next, the source is just past the current box
\* after each fetch, and Next yields the entries that it yields with no fetch.
C15_FetchKeepsIteration ==
    (\A i \in 1..Len(scanLog) : scanLog[i].err = "nil") =>
        /\ \A i \in 1..Len(scanLog) :
              scanLog[i].op # "Next" =>
                  scanLog[i].rsPos = scanLog[i].entry.Offset + scanLog[i].entry.Size
        /\ Yielded = scanRun(NewScanner, buf, Len(Yielded))

(***************************************************************************)
(* Properties of the Reader.                                               *)
(***************************************************************************)
\* the first i calls on the Scanner, and on the Reader, all returned true
BothYieldedUpTo(i) ==
    \A j \in 1..i : scanLog[j].ok /\ rdLog[j].ok

\* the {type, offset, size} of the entry of the Scanner, and of the current
\* box of the Reader
ScanTriple(e) ==
    <<e.entry.Type, e.entry.Offset, e.entry.Size>>

ReaderTriple(e) == <<e.Type, e.Offset, e.Size>>

\* C16: over the same buffer the k-th Next of the Scanner and the k-th Next of
\* a Reader at depth 0 return the same, and when they return true the same
\* type, offset and total size, so that both yield the same sequence of boxes
\* and end it at the same place.
C16_ScannerAgreesWithReader ==
    \A k \in 1..Len(scanLog) :
        (k <= Len(rdLog) /\ BothYieldedUpTo(k - 1)) =>
            /\ scanLog[k].ok = rdLog[k].ok
            /\ scanLog[k].ok => ScanTriple(scanLog[k]) = ReaderTriple(rdLog[k])

\* Next has just returned true
NextYielded ==
    /\ rdLog # <<>>
    /\ rdLog[Len(rdLog)].op = "Next"
    /\ rd.ok

\* where the frame that is iterated starts: the data of the box entered last
frameStart == IF rdSnap = <<>> THEN 0 ELSE rdSnap[Len(rdSnap)].dataStart

\* C17: whenever Next returns true the box lies in the frame with its header
\* inside it, frameStart <= Offset < DataOffset <= Offset + Size <= frameEnd,
\* and Data() and RawBox() are slices of the buffer.
C17_YieldedBoxIsConsistent ==
    NextYielded =>
        /\ frameStart <= rd.boxStart
        /\ rd.boxStart < rd.dataStart
        /\ rd.dataStart <= rd.boxStart + rd.boxSize
        /\ rd.boxStart + rd.boxSize <= rd.end
        /\ slicesValid(rd, buf)

\* Exit has just returned
Exited ==
    /\ rdLog # <<>>
    /\ rdLog[Len(rdLog)].op = "Exit"

\* the Reader as it was at the Enter that the last Exit closes: B is its
\* current box
EnteredAt == rdLog[Len(rdLog)].snap

\* Next in the frame of r from the byte that follows its current box
nextSibling(r, b) ==
    LET after == r.boxStart + r.boxSize
    IN  readerNext([r EXCEPT !.pos = after, !.boxEnd = after], b)

\* what a call of Next has returned and the box that it left current
Outcome(r) ==
    IF r.panic
    THEN <<"panic">>
    ELSE IF ~r.ok
    THEN <<"false">>
    ELSE <<"true", r.boxType, r.boxStart, r.boxSize, r.dataStart, r.boxEnd>>

\* C18: after Enter on a box B at depth d, any calls of Next and Skip and
\* balanced Enter / Exit pairs inside B, and then Exit, the depth is d again,
\* the frame ends where the parent of B ends, and the next Next returns what
\* Next returns from the byte that follows B in its parent.
C18_EnterExitIsBalanced ==
    Exited =>
        /\ ~rd.panic
        /\ rd.depth = EnteredAt.depth
        /\ rd.end = EnteredAt.end
        /\ Outcome(readerNext(rd, buf)) = Outcome(nextSibling(EnteredAt, buf))

\* the declared size of the current box of r covers its header and ends in the
\* frame
Consistent(r) ==
    /\ r.boxStart < r.dataStart
    /\ r.dataStart <= r.boxStart + r.boxSize
    /\ r.boxStart + r.boxSize <= r.end

\* Enter / Exit is a balanced frame around every box that is consistent.
EnterExitIsBalancedOnConsistentBox ==
    (Exited /\ Consistent(EnteredAt)) =>
        /\ ~rd.panic
        /\ rd.depth = EnteredAt.depth
        /\ rd.end = EnteredAt.end
        /\ Outcome(readerNext(rd, buf)) = Outcome(nextSibling(EnteredAt, buf))

(***************************************************************************)
(* Properties of the mp4 Writer.                                           *)
(***************************************************************************)
\* the version byte of the box that was written
writtenVersion == mw.bytes[9]

\* a value of the call does not fit the 32-bit field of version 0
OverflowsVersion0 ==
    \/ written.duration > uint32Max
    \/ /\ written.fn = "elst"
       /\ \E i \in 1..Len(written.args) :
             \/ written.args[i].SegmentDuration > uint32Max
             \/ written.args[i].MediaTime > Uint32Range \div 2 - 1
             \/ written.args[i].MediaTime < -(Uint32Range \div 2)

\* C19: WriteMvhd, WriteTkhd, WriteMdhd, WriteMehd, WriteTfdt and WriteElst
\* write version 1 when a duration or time passed in does not fit the 32-bit
\* field of version 0, and the matching Read function (ElstIter for elst)
\* returns from the written box the values that were passed in.
C19_VersionOneRoundTrip ==
    /\ (written.fn # "none" /\ OverflowsVersion0) => writtenVersion = 1
    /\ readBack # <<>> => readBack = <<"ok">> \o written.args

(***************************************************************************)
(* Properties of the cursors.                                              *)
(***************************************************************************)
\* the bytes of the payload before its entries, and where its count is
HeaderLen ==
    CASE it.kind = "stsz" -> 8
      [] it.kind = "trun" ->
            4 + 4 * Cardinality(it.flags \cap {"DataOffset", "FirstSampleFlags"})
      [] OTHER -> 4

CountAt == IF it.kind = "stsz" THEN 4 ELSE 0

\* the bytes of one entry
EntryLen ==
    CASE it.kind \in {"stsz", "uint32"} -> 4
      [] it.kind \in {"co64", "stts", "ctts"} -> 8
      [] it.kind = "stsc" -> 12
      [] it.kind = "elst" -> IF it.version = 1 THEN 20 ELSE 12
      [] it.kind = "trun" ->
            4 * Cardinality(it.flags \ {"DataOffset", "FirstSampleFlags"})

\* the count that the payload declares
DeclaredCount ==
    IF Len(buf) < CountAt + 4 THEN 0 ELSE beAt(buf, CountAt, CountAt + 4)

\* the entries that are whole in the payload; entries of no bytes are all there
CompleteEntries ==
    IF Len(buf) < HeaderLen
    THEN 0
    ELSE IF EntryLen = 0
    THEN DeclaredCount
    ELSE (Len(buf) - HeaderLen) \div EntryLen

ExpectedEntries ==
    IF DeclaredCount < CompleteEntries THEN DeclaredCount ELSE CompleteEntries

\* the entries that the cursor has yielded
YieldCount == Cardinality({i \in 1..Len(itLog) : itLog[i].ok})

\* an stsz of samples of one size stores no sizes
StoredEntries == ~(it.kind = "stsz" /\ it.c.sampleSize # 0)

\* C20: a cursor never reads outside its payload, returns done on every call
\* after it has returned done once, and until then (for stsz: when its sizes
\* are stored) yields min(declared count, entries complete in the payload)
\* entries, also when the payload is cut short.
C20_CursorsTolerateTruncation ==
    /\ \A i \in 1..Len(itLog) : ~itLog[i].panic
    /\ \A i, j \in 1..Len(itLog) : (i < j /\ ~itLog[i].ok) => ~itLog[j].ok
    /\ StoredEntries =>
          /\ YieldCount <= ExpectedEntries
          /\ (\E i \in 1..Len(itLog) : ~itLog[i].ok) =>
                YieldCount = ExpectedEntries

\* a cursor over a payload cut short of its declared count has yielded the
\* entries that are complete and has then returned done twice
C20_Witness ==
    /\ it.kind # "none"
    /\ StoredEntries
    /\ CompleteEntries < DeclaredCount
    /\ YieldCount >= 1
    /\ Cardinality({i \in 1..Len(itLog) : ~itLog[i].ok}) >= 2

(***************************************************************************)
(* Properties of the seek helpers.                                         *)
(***************************************************************************)
\* the calls of FindSampleAfter made on the track
AfterCalls == {i \in 1..Len(sought) : sought[i].fn = "After"}

NonEmptyTrack == Len(track.Samples) > 0

\* C21: on a non-empty track FindSampleAfter(t1) >= FindSampleAfter(t2) if and
\* only if t1 >= t2.
C21_SeekMonotoneIff ==
    NonEmptyTrack =>
        \A i, j \in AfterCalls :
            (sought[i].idx >= sought[j].idx) <=> (sought[i].time >= sought[j].time)

\* C21, as it holds: on a non-empty track FindSampleAfter does not go back
\* when the time goes on, t1 >= t2 implies
\* FindSampleAfter(t1) >= FindSampleAfter(t2).
C21_SeekMonotone ==
    NonEmptyTrack =>
        \A i, j \in AfterCalls :
            (sought[i].time >= sought[j].time) => (sought[i].idx >= sought[j].idx)

\* a later time has been answered with a later sample, and a time past the
\* last pts with the last sample
C21_Witness ==
    /\ NonEmptyTrack
    /\ \E i, j \in AfterCalls :
          /\ sought[i].time > sought[j].time
          /\ sought[i].idx > sought[j].idx
          /\ sought[i].idx = Len(track.Samples) - 1
          /\ \A k \in 0..(Len(track.Samples) - 1) :
                ptsOf(track.Samples, k) < scaleTime(sought[i].time, track.TimeScale)

\* the sample with the 0-based index idx is a sync sample
IsSync(idx) == track.Samples[idx + 1].Sync

\* where the walk of the call starts: what the binary search returned
WalkStart(s) ==
    LET scaledTime == scaleTime(s.time, track.TimeScale)
        n == Len(track.Samples)
    IN  IF s.fn = "After"
        THEN searchPtsGE(track.Samples, scaledTime, 0, n)
        ELSE Max(searchPtsGT(track.Samples, scaledTime, 0, n) - 1, 0)

\* C22: on a non-empty track the index returned by FindSampleAfter and the
\* index returned by FindSampleBefore designate a sync sample.
C22_SeekReturnsSync ==
    NonEmptyTrack =>
        \A i \in 1..Len(sought) : IsSync(sought[i].idx)

\* What the two walks do guarantee: the index returned designates a sync sample, or the
\* walk has found none: FindSampleAfter then returns the last index and no
\* sample from the start of the walk on is sync, FindSampleBefore returns 0
\* and no sample up to the start of the walk is sync.
C22_SeekReturnsSyncIfAny ==
    NonEmptyTrack =>
        \A i \in 1..Len(sought) :
            LET s == sought[i]
                last == Len(track.Samples) - 1
            IN  \/ IsSync(s.idx)
                \/ /\ s.fn = "After"
                   /\ s.idx = last
                   /\ \A k \in WalkStart(s)..last : ~IsSync(k)
                \/ /\ s.fn = "Before"
                   /\ s.idx = 0
                   /\ \A k \in 0..WalkStart(s) : ~IsSync(k)

(***************************************************************************)
(* Properties of the fragments of a stream.                                *)
(***************************************************************************)
\* the moof boxes handed to the sink, in order
Moofs(s) == SelectSeq(s, LAMBDA tok : tok.kind = "moof")

\* the call has resolved its range
Resolved1 == call[1].pc \notin {"off", "start"} /\ call[1].ret # "panic"

\* where the stream of the call ends: the first sample at or past the end
\* time, or the number of samples
StreamEnd ==
    IF call[1].endTimeScaled > 0
    THEN FirstPast(track.Samples, call[1].firstSample, call[1].endTimeScaled)
    ELSE Len(track.Samples)

\* the call has returned nil
Finished1 == call[1].pc = "done" /\ call[1].ret = "nil"

\* C23: the runs of the moofs of one stream partition the emitted samples:
\* every run has at least one entry, the first run starts at the first sample
\* of the range, every later run at the sample after the last of the run
\* before it, the entries of a run are those of its samples in decode order,
\* and a finished stream has emitted every sample up to its end, once.
C23_FragmentsPartition ==
    Resolved1 =>
        LET m == Moofs(offered[1])
        IN  /\ \A k \in 1..Len(m) :
                  /\ Len(m[k].entries) >= 1
                  /\ m[k].first = IF k = 1 THEN call[1].firstSample
                                  ELSE m[k - 1].first + Len(m[k - 1].entries)
                  /\ m[k].first + Len(m[k].entries) <= Len(track.Samples)
                  /\ m[k].entries =
                        [i \in 1..Len(m[k].entries) |->
                            TrunEntry(track.Samples[m[k].first + i])]
            /\ Finished1 =>
                  /\ Emitted(offered[1]) = call[1].firstSample..(StreamEnd - 1)
                  /\ m # <<>> =>
                        m[Len(m)].first + Len(m[Len(m)].entries) = StreamEnd

\* a finished stream of two fragments or more, one of them of two samples or
\* more
C23_Witness ==
    /\ Resolved1
    /\ Finished1
    /\ Len(Moofs(offered[1])) >= 2
    /\ \E k \in 1..Len(Moofs(offered[1])) : Len(Moofs(offered[1])[k].entries) >= 2

\* sample j (0-based) may end a fragment that starts at sample first: a sync
\* sample strictly after it, at least the minimum duration later in decode time
IsBoundary(first, j) ==
    /\ j > first
    /\ track.Samples[j + 1].Sync
    /\ track.Samples[j + 1].DTS - track.Samples[first + 1].DTS
          >= track.TimeScale * minFragmentDuration

\* C24: with end_time_scaled = 0 every fragment after the first starts on a
\* sync sample, which is the earliest sync sample strictly after the first
\* sample of the fragment before whose dts is at least timescale x 1 second
\* past that sample's dts; every fragment but the last spans one second of
\* decode time or more, and the last fragment of a finished stream holds no
\* such sample.
C24_BoundariesOnSyncAfterMinDuration ==
    (Resolved1 /\ call[1].endTimeScaled = 0) =>
        LET m == Moofs(offered[1])
        IN  /\ \A k \in 2..Len(m) :
                  /\ track.Samples[m[k].first + 1].Sync
                  /\ IsBoundary(m[k - 1].first, m[k].first)
                  /\ \A j \in (m[k - 1].first + 1)..(m[k].first - 1) :
                        ~IsBoundary(m[k - 1].first, j)
                  /\ track.Samples[m[k].first + 1].DTS
                        - track.Samples[m[k - 1].first + 1].DTS
                        >= track.TimeScale * minFragmentDuration
            /\ (Finished1 /\ m # <<>>) =>
                  \A j \in (m[Len(m)].first + 1)..(Len(track.Samples) - 1) :
                        ~IsBoundary(m[Len(m)].first, j)

\* a stream without end time of two fragments, the first of which runs past a
\* sync sample that comes before the minimum duration has elapsed
C24_Witness ==
    /\ Resolved1
    /\ call[1].endTimeScaled = 0
    /\ Len(Moofs(offered[1])) >= 2
    /\ \E j \in (Moofs(offered[1])[1].first + 1)..(Moofs(offered[1])[2].first - 1) :
          track.Samples[j + 1].Sync

(***************************************************************************)
(* Properties of the byte ranges and of the mdat header.                   *)
(***************************************************************************)
\* the mdat header of the fragment has been handed to the sink and no range
\* of the fragment has been copied yet
AfterMdatHeader ==
    /\ call[1].pc = "range"
    /\ call[1].rangeIdx = 0
    /\ offered[1][Len(offered[1])].kind = "mdat"

\* the end of sample i (0-based) in the source: offset + size
SampleEnd(i) == track.Samples[i + 1].Offset + track.Samples[i + 1].Size

\* the samples of the run first..first+n-1 that start a range: the first, and
\* every sample that does not start where the sample before it ends
RangeStarts(first, n) ==
    {i \in first..(first + n - 1) :
        i = first \/ SampleEnd(i - 1) # track.Samples[i + 1].Offset}

\* the k-th smallest element of a set of numbers
RECURSIVE Nth(_, _)
Nth(S, k) ==
    LET lo == CHOOSE x \in S : \A y \in S : x <= y
    IN  IF k = 1 THEN lo ELSE Nth(S \ {lo}, k - 1)

RECURSIVE sumRanges(_, _)
\* the lengths of the ranges k+1.. added up
sumRanges(ranges, k) ==
    IF k >= Len(ranges) THEN 0
    ELSE ranges[k + 1].End - ranges[k + 1].Start + sumRanges(ranges, k + 1)

\* the ranges of the fragment follow the samples in order, two consecutive
\* samples share a range exactly when the second starts where the first ends,
\* the bytes of the ranges are the payloads of the samples in decode order and
\* the lengths of the ranges add up to mdat_payload_size, the sum of the sizes
RangesCoverPayload ==
    AfterMdatHeader =>
        LET m == Moofs(offered[1])
            first == m[Len(m)].first
            n == Len(m[Len(m)].entries)
            ranges == wr[WriterOf(1)].ranges
            starts == RangeStarts(first, n)
        IN  /\ Len(ranges) = Cardinality(starts)
            /\ \A k \in 1..Len(ranges) :
                  /\ ranges[k].Start = track.Samples[Nth(starts, k) + 1].Offset
                  /\ ranges[k].End =
                        SampleEnd(IF k < Len(ranges) THEN Nth(starts, k + 1) - 1
                                  ELSE first + n - 1)
            /\ rangesPayload(ranges, 0) = SamplePayload(track.Samples, first, n)
            /\ sumRanges(ranges, 0) = call[1].mdatSize
            /\ call[1].mdatSize = sumSizes(track.Samples, first, first + n)

\* C25: for every fragment the coalesced ranges are in sample order, merge
\* exactly the samples that lie back to back, carry the payloads of the samples
\* in decode order, and their lengths add up to mdat_payload_size, the sum of
\* the sample sizes, which the mdat header announces as size - 8.
C25_RangesAndMdatSize ==
    /\ RangesCoverPayload
    /\ AfterMdatHeader =>
          offered[1][Len(offered[1])].val - 8 = call[1].mdatSize

(***************************************************************************)
(* Properties of the chunk cursor.                                         *)
(***************************************************************************)
\* the reference expansion of stsc: the samples_per_chunk of chunk c (1-based)
\* is that of the last entry whose first_chunk is at most c
RefSamplesPerChunk(entries, c) ==
    LET k == CHOOSE k \in 1..Len(entries) :
                /\ entries[k].FirstChunk <= c
                /\ \A l \in 1..Len(entries) :
                      entries[l].FirstChunk <= c =>
                          entries[l].FirstChunk <= entries[k].FirstChunk
    IN  entries[k].SamplesPerChunk

RECURSIVE RefSamplesBefore(_, _)
\* the number of samples in the chunks before chunk c
RefSamplesBefore(entries, c) ==
    IF c <= 1 THEN 0
    ELSE RefSamplesBefore(entries, c - 1) + RefSamplesPerChunk(entries, c - 1)

\* the chunk (1-based) that holds sample i (0-based)
RefChunkOf(entries, i) ==
    CHOOSE c \in 1..(i + 1) :
        RefSamplesBefore(entries, c) <= i /\ i < RefSamplesBefore(entries, c + 1)

\* chunk_offsets[c] plus the sizes of the earlier samples of chunk c
RefOffset(tables, i) ==
    LET c == RefChunkOf(tables.stsc.entries, i)
    IN  chunkOffsetsOf(tables)[c]
           + sumSizes([k \in 1..Len(tables.stsz.entries) |->
                          [Size |-> tables.stsz.entries[k]]],
                      RefSamplesBefore(tables.stsc.entries, c), i)

\* the chunk-offset table has an offset for the chunk of every sample
ChunksCovered(tables) ==
    \A i \in 0..(Len(tables.stsz.entries) - 1) :
        RefChunkOf(tables.stsc.entries, i) <= Len(chunkOffsetsOf(tables))

\* C26: for a well-formed stsc the offset of every sample is the offset of its
\* chunk in the reference expansion of stsc plus the sizes of the earlier
\* samples of that chunk, also when first_chunk jumps by more than one; the
\* table is built whenever the chunk-offset table covers the chunks.
C26_ChunkCursorAgrees ==
    /\ built.status = "ok" =>
          /\ Len(built.samples) = Len(stbl.stsz.entries)
          /\ \A i \in 0..(Len(built.samples) - 1) :
                built.samples[i + 1].Offset = RefOffset(stbl, i)
    /\ (built.status # "none" /\ ChunksCovered(stbl)) => built.status = "ok"

\* a table built over an stsc whose first_chunk jumps by more than one, with a
\* sample in a chunk of the entry after the jump
C26_Witness ==
    /\ built.status = "ok"
    /\ \E k \in 2..Len(stbl.stsc.entries) :
          /\ stbl.stsc.entries[k].FirstChunk > stbl.stsc.entries[k - 1].FirstChunk + 1
          /\ \E i \in 1..(Len(built.samples) - 1) :
                RefChunkOf(stbl.stsc.entries, i) >= stbl.stsc.entries[k].FirstChunk

(***************************************************************************)
(* FindSampleAfter against its reference.                                  *)
(***************************************************************************)
\* the reference result over the samples whose pts satisfies AtOrAfter: the
\* lowest sync index at or after the lowest index that satisfies it, or the
\* last index when there is no such index or no such sync sample
RefAfter(AtOrAfter) ==
    LET n == Len(track.Samples)
        js == {j \in 0..(n - 1) : j \in AtOrAfter}
    IN  IF js = {}
        THEN n - 1
        ELSE LET j == CHOOSE x \in js : \A y \in js : x <= y
                 ks == {k \in j..(n - 1) : IsSync(k)}
             IN  IF ks = {} THEN n - 1
                 ELSE CHOOSE x \in ks : \A y \in ks : x <= y

\* the samples whose pts is at or after the time t (in half seconds):
\* pts >= t x timescale, the product taken exactly
PtsAtOrAfter(halfSeconds) ==
    {j \in 0..(Len(track.Samples) - 1) :
        2 * ptsOf(track.Samples, j) >= halfSeconds * track.TimeScale}

\* the samples whose pts is at or after int64(t x timescale)
PtsAtOrAfterScaled(halfSeconds) ==
    {j \in 0..(Len(track.Samples) - 1) :
        ptsOf(track.Samples, j) >= scaleTime(halfSeconds, track.TimeScale)}

\* pts does not decrease in decode order
PtsSorted ==
    \A i \in 1..(Len(track.Samples) - 1) :
        ptsOf(track.Samples, i - 1) <= ptsOf(track.Samples, i)

\* C27: on every non-empty track, also one whose pts is not monotonic in
\* decode order, FindSampleAfter(t) is the lowest sync index at or after the
\* lowest index j with pts >= t x timescale, or the last index when there is
\* no such j or no such sync sample.
C27_AfterEqualsReference ==
    NonEmptyTrack =>
        \A i \in AfterCalls : sought[i].idx = RefAfter(PtsAtOrAfter(sought[i].time))

\* on a track whose pts does not decrease in decode order FindSampleAfter(t)
\* is the reference result for the time cut to a whole number of ticks
AfterEqualsReferenceOnSortedPts ==
    (NonEmptyTrack /\ PtsSorted) =>
        \A i \in AfterCalls :
            sought[i].idx = RefAfter(PtsAtOrAfterScaled(sought[i].time))

(***************************************************************************)
(* Properties of locating the moov box.                                    *)
(***************************************************************************)
\* the header size of the box at offset ptr: 16 with the size field 1, else 8
RefHeaderSize(b, ptr) ==
    IF beUint(SubSeq(b, ptr + 1, ptr + 4)) = 1 THEN 16 ELSE 8

\* the total size of the box at offset ptr: the 64-bit extended size when the
\* size field is 1, the size field otherwise
RefBoxSize(b, ptr) ==
    IF beUint(SubSeq(b, ptr + 1, ptr + 4)) = 1
    THEN beUint(SubSeq(b, ptr + 9, ptr + 16))
    ELSE beUint(SubSeq(b, ptr + 1, ptr + 4))

RECURSIVE RefMoovFrom(_, _)
\* the reference walk over the top-level boxes of a file of whole boxes: every
\* box before moov skipped by its total size; the bytes of the moov box, or
\* <<>> when the file holds none
RefMoovFrom(b, ptr) ==
    IF ptr + 8 > Len(b)
    THEN <<>>
    ELSE IF SubSeq(b, ptr + 5, ptr + 8) = TypeMoov
    THEN SubSeq(b, ptr + 1, ptr + RefBoxSize(b, ptr))
    ELSE RefMoovFrom(b, ptr + RefBoxSize(b, ptr))

RECURSIVE ExtendedUpToMoov(_, _)
\* a box before the moov box, or the moov box, carries an extended size
ExtendedUpToMoov(b, ptr) ==
    IF ptr + 8 > Len(b)
    THEN FALSE
    ELSE \/ RefHeaderSize(b, ptr) = 16
         \/ /\ SubSeq(b, ptr + 5, ptr + 8) # TypeMoov
            /\ ExtendedUpToMoov(b, ptr + RefBoxSize(b, ptr))

\* both functions have returned
BothLocated == Len(located) = 2

\* C28: for the same file both functions return the moov box that the walk
\* over the top-level boxes finds, every box before it skipped by its total
\* size, a box with a 64-bit extended size included.
C28_SameMoovFromBothSources ==
    (BothLocated /\ RefMoovFrom(buf, 0) # <<>>) =>
        \A i \in 1..2 :
            /\ located[i].res.status = "ok"
            /\ located[i].res.box = RefMoovFrom(buf, 0)

\* when no box up to and including the moov box carries an extended size,
\* both functions return the moov box of the file, and both return an error
\* for a file without one
SameMoovBehindShortHeaders ==
    (BothLocated /\ ~ExtendedUpToMoov(buf, 0)) =>
        \A i \in 1..2 :
            IF RefMoovFrom(buf, 0) # <<>>
            THEN /\ located[i].res.status = "ok"
                 /\ located[i].res.box = RefMoovFrom(buf, 0)
            ELSE located[i].res = MoovError("moov box not found")

(***************************************************************************)
(* Termination of the Reader.                                              *)
(***************************************************************************)
\* the calls of Next that returned true
YieldingNexts == {i \in 1..Len(rdLog) : rdLog[i].op = "Next" /\ rdLog[i].ok}

\* C29: every Next that returns true leaves the end of the box it reports
\* past its start, so that the next call resumes strictly further on, and two
\* calls of Next in a row never report the same box.
C29_NextMovesForward ==
    \A i \in YieldingNexts :
        /\ rdLog[i].boxEnd > rdLog[i].Offset
        /\ (i - 1) \in YieldingNexts => rdLog[i].Offset > rdLog[i - 1].Offset

\* a Next that reports a box whose size, taken as an int, is not negative
\* leaves its end past its start
NextMovesForwardBelowSignBit ==
    \A i \in YieldingNexts :
        rdLog[i].Size < Uint64Range \div 2 => rdLog[i].boxEnd > rdLog[i].Offset

(***************************************************************************)
(* Index expressions on Track.Samples.                                     *)
(***************************************************************************)
\* C30: for every track that newRemuxer can produce, one without samples
\* included, and every start and end time, no index expression on
\* Track.Samples is out of range: the call does not panic, and the first
\* sample that resolveRange yields is an index of Samples or the call hands
\* the sink the init segment only.
C30_NoIndexOutOfRange ==
    /\ call[1].ret # "panic"
    /\ Resolved1 =>
          \/ call[1].firstSample \in 0..(Len(track.Samples) - 1)
          \/ Moofs(offered[1]) = <<>>

\* on a track that has a sample no call panics and the first sample is an
\* index of Samples
NoIndexOutOfRangeOnSamples ==
    NonEmptyTrack =>
        /\ call[1].ret # "panic"
        /\ Resolved1 => call[1].firstSample \in 0..(Len(track.Samples) - 1)

====
